---- MODULE Spec2Model ----
(***************************************************************************)
(* RBQL (rainbow_csv): the generated executor rb_transform of              *)
(* src/python/rbql.py, with the join loader, the joiners, the writers and  *)
(* the ORDER BY part of parse_to_py that fixes the sort direction.         *)
(*                                                                         *)
(* Encoding.  A string without the delimiter DLM is a code in Values (the  *)
(* codes are ordered as the strings they stand for, no string is a prefix  *)
(* of another one).  A string with delimiters is the sequence of its       *)
(* DLM-separated pieces, so line.split(DLM) and DLM.join(...) are the      *)
(* identity and concatenation on sequences.  Every Python value of the     *)
(* model is such a sequence; Python's None is the sequence <<NULL>>.       *)
(*                                                                         *)
(* The query parser parse_to_py (comment stripping, the three lexer        *)
(* passes, separate_actions, the choice of the SELECT and JOIN variants,   *)
(* the rewriting of column and star variables) and the record iterator     *)
(* rows follow the executor.  There a line is the sequence of its          *)
(* elements: the special characters one by one and each alphanumeric run   *)
(* as one element; the text-level None is NoText.                          *)
(***************************************************************************)
EXTENDS Integers, Sequences, FiniteSets, TLC

\* The number of records read from stream A and from the B file
MaxA == 2
MaxB == 2

\* The sample field strings: code 0 is the string '0', the largest code is
\* the string 'None' (a table may hold it as text).
Values == { 0, 1 }
NoneStr == CHOOSE v \in Values : \A u \in Values : u <= v
NULL == 0 - 1
PyNone == << NULL >>

\* A line of a table, already split on DLM: at least one field.
FieldCounts == { 1, 2 }
Lines == UNION { [1 .. n -> Values] : n \in FieldCounts }

\* The executor (rb_transform and what it constructs)
VARIABLES rb_actions, params, pc, NR, joiner, il, b_line, unsorted_entries,
          seen, destination, error, last

\* The parser (parse_to_py and the part of main around it)
VARIABLES phase, py_dst, rbql_lines, tokens, actions, plan, parse_error,
          py_file, streams

\* The record iterator rows(f, chunksize, sep)
VARIABLES stream, chunksize, fstream, chunk, incomplete_row, yielded, at

execVars == << rb_actions, params, pc, NR, joiner, il, b_line, unsorted_entries,
               seen, destination, error, last >>

parseVars == << phase, py_dst, rbql_lines, tokens, actions, plan, parse_error,
                py_file, streams >>

rowsVars == << stream, chunksize, fstream, chunk, incomplete_row, yielded, at >>

vars == << execVars, parseVars, rowsVars >>

----------------------------------------------------------------------------
(* Strings and Python values *)

Min(a, b) == IF a < b THEN a ELSE b

Max(a, b) == IF a < b THEN b ELSE a

\* s < t for Python strings (and for tuples): the first difference decides,
\* a proper prefix is smaller.
StrLess(s, t) ==
    \E i \in 1 .. Min(Len(s), Len(t)) + 1 :
        /\ \A j \in 1 .. i - 1 : s[j] = t[j]
        /\ \/ i = Len(s) + 1 /\ i <= Len(t)
           \/ i <= Len(s) /\ i <= Len(t) /\ s[i] < t[i]

\* str6 of a value: a string is returned as it is, None becomes 'None'.
str6(obj) == IF obj = PyNone THEN << NoneStr >> ELSE obj

RECURSIVE JoinDLM(_)
\* DLM.join(strs)
JoinDLM(strs) ==
    IF strs = << >> THEN << >> ELSE Head(strs) \o JoinDLM(Tail(strs))

----------------------------------------------------------------------------
(* The query: clause bodies after replace_column_vars / replace_star_vars *)

AFieldRefs == { "fields[0]", "fields[1]" }
BFieldRefs == { "bfields[0]", "bfields[1]" }

RefIdx(w) == IF w \in { "fields[0]", "bfields[0]" } THEN 0 ELSE 1

\* content.upper() of a word of an ORDER BY body
Upper(w) ==
    CASE w \in { "desc", "Desc", "DESC" } -> "DESC"
      [] w \in { "asc", "Asc", "ASC" } -> "ASC"
      [] OTHER -> w

\* order_expression.upper().endswith(' ' + marker): the expression is its
\* words joined by single spaces.
EndsWithMarker(order_expression, marker) ==
    /\ Len(order_expression) >= 2
    /\ Upper(order_expression[Len(order_expression)]) = marker

\* order_expression[:-len(direction_marker)].rstrip()
StripMarker(order_expression) ==
    SubSeq(order_expression, 1, Len(order_expression) - 1)

\* Variant: the direction marker is compared without upper()
ReverseFlagCaseSensitive(order_expression) ==
    /\ Len(order_expression) >= 2
    /\ order_expression[Len(order_expression)] = "DESC"

ReverseFlag(order_expression) == EndsWithMarker(order_expression, "DESC")

SortKeyExpression(order_expression) ==
    LET e1 == IF EndsWithMarker(order_expression, "DESC")
              THEN StripMarker(order_expression) ELSE order_expression
    IN  IF EndsWithMarker(e1, "ASC") THEN StripMarker(e1) ELSE e1

JoinOps == { "INNER JOIN", "LEFT JOIN", "STRICT LEFT JOIN" }

JoinerName(join_op) ==
    CASE join_op = "INNER JOIN" -> "InnerJoiner"
      [] join_op = "LEFT JOIN" -> "LeftJoiner"
      [] join_op = "STRICT LEFT JOIN" -> "StrictLeftJoiner"
      [] OTHER -> "none_joiner"

\* The clause maps the model runs: select_op, the join clause (the pair
\* returned by parse_join_expression), WHERE, SELECT and ORDER BY bodies.
\* "" and << >> stand for an absent clause.
OrderBodies ==
    { << k >> \o d : k \in { "fields[1]" },
                     d \in { << >>, << "Desc" >>, << "ASC" >>,
                             << "asc", "DESC" >> } }

JoinExprs ==
    { [lhs |-> "fields[1]", rhs |-> "bfields[0]"],
      [lhs |-> "fields[0]", rhs |-> "bfields[1]"] }

NoJoinExpr == [lhs |-> "", rhs |-> ""]

WhereBodies ==
    { << >>, << "fields[0]", "!=", "'0'" >>, << "fields[1]", "!=", "'0'" >> }

SelectBodies == { << "fields[1]" >>, << "bfields[1]" >>, << "star_line" >> }

Queries ==
    { [select_op |-> s, join_op |-> "", join |-> NoJoinExpr, where |-> w,
       select |-> e, order |-> o] :
         s \in { "SELECT", "SELECT DISTINCT" }, w \in WhereBodies,
         e \in SelectBodies, o \in OrderBodies \cup { << >> } }
    \cup
    { [select_op |-> s, join_op |-> j, join |-> x, where |-> w,
       select |-> e, order |-> o] :
         s \in { "SELECT", "SELECT DISTINCT" }, j \in JoinOps,
         x \in JoinExprs, w \in WhereBodies,
         e \in SelectBodies, o \in OrderBodies \cup { << >> } }

\* py_meta_params of parse_to_py
PyMetaParams(q) ==
    [ writer_type |-> IF q.select_op = "SELECT DISTINCT"
                      THEN "UniqWriter" ELSE "SimpleWriter",
      joiner_type |-> JoinerName(q.join_op),
      lhs_join_var |-> q.join.lhs,
      rhs_join_var |-> q.join.rhs,
      where_expression |-> IF q.where = << >> THEN << "True" >> ELSE q.where,
      select_expression |-> q.select,
      sort_flag |-> q.order # << >>,
      reverse_flag |-> IF q.order # << >> THEN ReverseFlag(q.order) ELSE FALSE,
      sort_key_expression |-> IF q.order # << >>
                              THEN SortKeyExpression(q.order)
                              ELSE << "None" >> ]

----------------------------------------------------------------------------
(* Errors *)

NoError == [kind |-> "none", col |-> 0, line |-> 0, details |-> "", key |-> << >>]

\* 'No "a<col>" column at line: <line>'
NoAColumn(bad_idx, nr) ==
    [kind |-> "NoAColumn", col |-> bad_idx + 1, line |-> nr, details |-> "",
     key |-> << >>]

\* 'Error at line: <line>, Details: <str(e)>'
ErrorAtLine(nr, details, key) ==
    [kind |-> "ErrorAtLine", col |-> 0, line |-> nr, details |-> details,
     key |-> key]

\* 'No "b<col>" column at line: <line> in "B" table'
NoBColumn(bad_idx, line_no) ==
    [kind |-> "NoBColumn", col |-> bad_idx + 1, line |-> line_no, details |-> "",
     key |-> << >>]

\* 'Join column must be unique in right-hand-side "B" table'
JoinNotUnique ==
    [kind |-> "JoinNotUnique", col |-> 0, line |-> 0, details |-> "", key |-> << >>]

\* 'Table B: <path> is not accessible'
NotAccessible ==
    [kind |-> "NotAccessible", col |-> 0, line |-> 0, details |-> "", key |-> << >>]

----------------------------------------------------------------------------
(* Field access *)

Value(v) == [exc |-> "", bad_idx |-> 0, val |-> v]

Raised(exc, idx) == [exc |-> exc, bad_idx |-> idx, val |-> << >>]

\* Variant: the IndexError is not translated
rbql_list_getitem_unwrapped(items, idx) ==
    IF idx < Len(items) THEN Value(<< items[idx + 1] >>)
    ELSE Raised("IndexError", idx)

\* rbql_list.__getitem__: IndexError becomes BadFieldError(idx)
rbql_list_getitem(items, idx) ==
    IF idx < Len(items) THEN Value(<< items[idx + 1] >>)
    ELSE Raised("BadFieldError", idx)

\* list.__getitem__ of a plain Python list
list_getitem(items, idx) ==
    IF idx < Len(items) THEN Value(<< items[idx + 1] >>)
    ELSE Raised("IndexError", idx)

\* bfields as bound in rb_transform: None, an rbql_list or a plain list
BFieldsUnset == [bound |-> FALSE, rbql |-> FALSE, items |-> << >>]

RbqlList(items) == [bound |-> TRUE, rbql |-> TRUE, items |-> items]

PlainList(items) == [bound |-> TRUE, rbql |-> FALSE, items |-> items]

bfields_getitem(bfields, idx) ==
    IF ~bfields.bound THEN Raised("TypeError", idx)
    ELSE IF bfields.rbql THEN rbql_list_getitem(bfields.items, idx)
    ELSE list_getitem(bfields.items, idx)

\* One term of a rewritten expression, evaluated in the row context
EvalTerm(w, fields, bfields, star_line) ==
    CASE w \in AFieldRefs -> rbql_list_getitem(fields, RefIdx(w))
      [] w \in BFieldRefs -> bfields_getitem(bfields, RefIdx(w))
      [] w = "star_line" -> Value(star_line)
      [] OTHER -> Value(PyNone)

\* ({where_expression}): 'True' or '<term> != '0''
EvalWhere(where_expression, fields, bfields, star_line) ==
    IF where_expression = << "True" >> THEN [exc |-> "", bad_idx |-> 0, val |-> TRUE]
    ELSE LET r == EvalTerm(where_expression[1], fields, bfields, star_line)
         IN  IF r.exc # "" THEN [exc |-> r.exc, bad_idx |-> r.bad_idx, val |-> FALSE]
             ELSE [exc |-> "", bad_idx |-> 0, val |-> r.val # << 0 >>]

\* [{select_expression}]: the terms are evaluated from left to right, the
\* first exception ends the evaluation.
EvalSelect(select_expression, fields, bfields, star_line) ==
    LET r == [i \in 1 .. Len(select_expression) |->
                 EvalTerm(select_expression[i], fields, bfields, star_line)]
        bad == { i \in 1 .. Len(select_expression) : r[i].exc # "" }
    IN  IF bad = { }
        THEN Value([i \in 1 .. Len(select_expression) |-> r[i].val])
        ELSE LET i == CHOOSE k \in bad : \A m \in bad : k <= m
             IN  Raised(r[i].exc, r[i].bad_idx)

\* ({sort_key_expression})
EvalSortKey(sort_key_expression, fields, bfields, star_line) ==
    EvalTerm(sort_key_expression[1], fields, bfields, star_line)

\* DLM.join([str6(f) for f in out_fields])
JoinOutFields(out_fields) ==
    JoinDLM([i \in 1 .. Len(out_fields) |-> str6(out_fields[i])])

----------------------------------------------------------------------------
(* Join loader and joiners *)

HasKey(join_data, key) == \E e \in join_data : e.key = key

Lookup(join_data, key) == (CHOOSE e \in join_data : e.key = key).bfields

\* Variant: a repeated key replaces the row indexed before
ReadJoinRowOverwrite(result, fields_max_len, line_no, bfields, rhs_join_var) ==
    LET fml == Max(fields_max_len, Len(bfields))
        key == IF RefIdx(rhs_join_var) < Len(bfields)
               THEN Value(<< bfields[RefIdx(rhs_join_var) + 1] >>)
               ELSE Raised("BadFieldError", RefIdx(rhs_join_var))
    IN  IF key.exc # ""
        THEN [error |-> NoBColumn(key.bad_idx, line_no), join_data |-> result,
              fields_max_len |-> fml]
        ELSE [error |-> NoError,
              join_data |-> { e \in result : e.key # key.val }
                              \cup { [key |-> key.val, bfields |-> bfields] },
              fields_max_len |-> fml]

\* One pass of the loop of read_join_table, for line il of the B file
ReadJoinRow(result, fields_max_len, line_no, bfields, rhs_join_var) ==
    LET fml == Max(fields_max_len, Len(bfields))
        key == rbql_list_getitem(bfields, RefIdx(rhs_join_var))
    IN  IF key.exc # ""
        THEN [error |-> NoBColumn(key.bad_idx, line_no), join_data |-> result,
              fields_max_len |-> fml]
        ELSE IF HasKey(result, key.val)
        THEN [error |-> JoinNotUnique, join_data |-> result, fields_max_len |-> fml]
        ELSE [error |-> NoError,
              join_data |-> result \cup { [key |-> key.val, bfields |-> bfields] },
              fields_max_len |-> fml]

NoneJoiner == [type |-> "none_joiner", join_data |-> { }, fields_max_len |-> 0]

\* Variant: a missing key is answered with some row of the index
InnerJoinerAnyRow(j, lhs_key) ==
    IF j.join_data # { }
    THEN [res |-> "row",
          bfields |-> RbqlList((CHOOSE e \in j.join_data :
                                   e.key = lhs_key \/ ~\E x \in j.join_data : x.key = lhs_key).bfields)]
    ELSE [res |-> "None", bfields |-> BFieldsUnset]

\* Variant: a missing key is answered with None
LeftJoinerSkip(j, lhs_key) ==
    IF \E e \in j.join_data : e.key = lhs_key
    THEN [res |-> "row",
          bfields |-> RbqlList((CHOOSE e \in j.join_data : e.key = lhs_key).bfields)]
    ELSE [res |-> "None", bfields |-> BFieldsUnset]

\* Variant: a missing key is answered with None instead of the error
StrictLeftJoinerSkip(j, lhs_key) ==
    IF \E e \in j.join_data : e.key = lhs_key
    THEN [res |-> "row",
          bfields |-> RbqlList((CHOOSE e \in j.join_data : e.key = lhs_key).bfields)]
    ELSE [res |-> "None", bfields |-> BFieldsUnset]

\* joiner.get(lhs_key): a row, None (skip) or a raised RbqlRuntimeError
InnerJoinerGet(j, lhs_key) ==
    IF HasKey(j.join_data, lhs_key)
    THEN [res |-> "row", bfields |-> RbqlList(Lookup(j.join_data, lhs_key))]
    ELSE [res |-> "None", bfields |-> BFieldsUnset]

LeftJoinerGet(j, lhs_key) ==
    IF HasKey(j.join_data, lhs_key)
    THEN [res |-> "row", bfields |-> RbqlList(Lookup(j.join_data, lhs_key))]
    ELSE [res |-> "row",
          bfields |-> PlainList([i \in 1 .. j.fields_max_len |-> NULL])]

StrictLeftJoinerGet(j, lhs_key) ==
    IF HasKey(j.join_data, lhs_key)
    THEN [res |-> "row", bfields |-> RbqlList(Lookup(j.join_data, lhs_key))]
    ELSE [res |-> "raise", bfields |-> BFieldsUnset]

JoinerGet(j, lhs_key) ==
    CASE j.type = "InnerJoiner" -> InnerJoinerGet(j, lhs_key)
      [] j.type = "LeftJoiner" -> LeftJoinerGet(j, lhs_key)
      [] OTHER -> StrictLeftJoinerGet(j, lhs_key)

----------------------------------------------------------------------------
(* Writers and sorting *)

\* Variant: the record is put in front of the output
SimpleWriterPrepend(w, e) == [dst |-> << e >> \o w.dst, seen |-> w.seen]

\* Variant: the seen set is not consulted
UniqWriterNoCheck(w, e) ==
    [dst |-> Append(w.dst, e), seen |-> w.seen \cup { e.rec }]

\* SimpleWriter.write
SimpleWriterWrite(w, e) == [dst |-> Append(w.dst, e), seen |-> w.seen]

\* UniqWriter.write
UniqWriterWrite(w, e) ==
    IF e.rec \in w.seen THEN w
    ELSE [dst |-> Append(w.dst, e), seen |-> w.seen \cup { e.rec }]

WriterWrite(writer_type, w, e) ==
    IF writer_type = "UniqWriter" THEN UniqWriterWrite(w, e)
    ELSE SimpleWriterWrite(w, e)

\* (sort_key_value, record) < (sort_key_value, record) for Python tuples
EntryLess(e1, e2) ==
    \/ StrLess(e1.key, e2.key)
    \/ e1.key = e2.key /\ StrLess(e1.rec, e2.rec)

\* sorted() is stable, also with reverse = True: an entry goes behind the
\* entries that do not have to follow it.
InsertEntry(e, s, reverse) ==
    LET after == { i \in 1 .. Len(s) :
                     IF reverse THEN EntryLess(s[i], e) ELSE EntryLess(e, s[i]) }
        p == IF after = { } THEN Len(s) + 1
             ELSE CHOOSE i \in after : \A k \in after : i <= k
    IN  SubSeq(s, 1, p - 1) \o << e >> \o SubSeq(s, p, Len(s))

RECURSIVE SortedPrefix(_, _, _)
SortedPrefix(entries, n, reverse) ==
    IF n = 0 THEN << >>
    ELSE InsertEntry(entries[n], SortedPrefix(entries, n - 1, reverse), reverse)

\* sorted(unsorted_entries, reverse = reverse_flag)
Sorted(entries, reverse) == SortedPrefix(entries, Len(entries), reverse)

RECURSIVE WriteAll(_, _, _, _)
\* for e in unsorted_entries: writer.write(e[1])
WriteAll(writer_type, w, entries, i) ==
    IF i > Len(entries) THEN w
    ELSE WriteAll(writer_type, WriterWrite(writer_type, w, entries[i]), entries, i + 1)

----------------------------------------------------------------------------
(* The lexer.  A query line is the sequence of its characters; a maximal   *)
(* run of letters, digits and underscores may be given as one element (the *)
(* element "select" is the six letters), every other character is an       *)
(* element of its own.  A token's content is the slice of the line it      *)
(* covers, so ''.join of contents is concatenation of sequences.           *)

Quotes == { "'", "\"" }

\* Python's None where a text is expected (it is formatted as None)
NoText == << "None" >>

\* The characters of the model that are no letter, digit or underscore
is_boundary(c) ==
    c \in { " ", "\t", "'", "\"", "\\", "#", ",", "*", "=", "(", ")" }

\* s[a:b] for 0 <= a
Slice(s, a, b) == SubSeq(s, a + 1, Min(b, Len(s)))

RECURSIVE Flatten(_)
\* ''.join(strs)
Flatten(strs) ==
    IF strs = << >> THEN << >> ELSE Head(strs) \o Flatten(Tail(strs))

\* Variant: a quote after any backslash is escaped
is_escaped_quote_any_backslash(cline, i) == i >= 1 /\ cline[i] = "\\"

is_escaped_quote(cline, i) ==
    IF i = 0 THEN FALSE
    ELSE IF i = 1 /\ cline[i] = "\\" THEN TRUE
    ELSE i >= 2 /\ cline[i] = "\\" /\ cline[i - 1] # "\\"

RECURSIVE rstrip(_)
\* s.rstrip()
rstrip(s) ==
    IF s # << >> /\ s[Len(s)] \in { " ", "\t" }
    THEN rstrip(SubSeq(s, 1, Len(s) - 1)) ELSE s

RECURSIVE lstrip(_)
lstrip(s) == IF s # << >> /\ s[1] \in { " ", "\t" } THEN lstrip(Tail(s)) ELSE s

RECURSIVE strip_comments_from(_, _, _)
\* The for loop of strip_comments from position i on; "" is no quote mark
strip_comments_from(cline, i, cur_quote_mark) ==
    IF i >= Len(cline) THEN cline
    ELSE LET c == cline[i + 1]
         IN  IF cur_quote_mark = "" /\ c = "#"
             THEN rstrip(Slice(cline, 0, i))
             ELSE IF cur_quote_mark = "" /\ c \in Quotes
             THEN strip_comments_from(cline, i + 1, c)
             ELSE IF /\ cur_quote_mark # ""
                     /\ c = cur_quote_mark
                     /\ ~ is_escaped_quote(cline, i)
             THEN strip_comments_from(cline, i + 1, "")
             ELSE strip_comments_from(cline, i + 1, cur_quote_mark)

strip_comments(cline) ==
    LET stripped == rstrip(cline)
        spaced == [i \in 1 .. Len(stripped) |->
                     IF stripped[i] = "\t" THEN " " ELSE stripped[i]]
    IN  strip_comments_from(spaced, 0, "")

Token(ttype, content) == [ttype |-> ttype, content |-> content]

Space == Token("WHITESPACE", << " " >>)

\* Variant: a string literal ends before its closing quote
LiteralOpen(cline, k, i) == Token("STRING_LITERAL", Slice(cline, k, i))

\* The string literal from the opening quote at k to the closing quote at i
Literal(cline, k, i) == Token("STRING_LITERAL", Slice(cline, k, i + 1))

RECURSIVE tokenize_line(_, _, _, _, _)
\* The while loop of tokenize_string_literals over one line, and the two
\* appends after it
tokenize_line(cline, i, k, cur_quote_mark, result) ==
    IF i >= Len(cline)
    THEN Append(IF k < i THEN Append(result, Token("RAW", Slice(cline, k, i)))
                ELSE result,
                Space)
    ELSE LET c == cline[i + 1]
         IN  IF cur_quote_mark = "" /\ c \in Quotes
             THEN tokenize_line(cline, i + 1, i, c,
                                Append(result, Token("RAW", Slice(cline, k, i))))
             ELSE IF /\ cur_quote_mark # ""
                     /\ c = cur_quote_mark
                     /\ ~ is_escaped_quote(cline, i)
             THEN tokenize_line(cline, i + 1, i + 1, "",
                                Append(result, Literal(cline, k, i)))
             ELSE tokenize_line(cline, i + 1, k, cur_quote_mark, result)

RECURSIVE tokenize_string_literals(_)
tokenize_string_literals(lines) ==
    IF lines = << >> THEN << >>
    ELSE tokenize_line(Head(lines), 0, 0, "", << >>)
           \o tokenize_string_literals(Tail(lines))

RECURSIVE tokenize_content(_, _, _, _, _)
\* The while loop of tokenize_terms over the content of one RAW token
tokenize_content(content, i, k, in_alphanumeric, result) ==
    IF i >= Len(content)
    THEN IF k < i
         THEN Append(result, Token("ALPHANUM_RAW", Slice(content, k, i)))
         ELSE result
    ELSE LET c == content[i + 1]
         IN  IF c = " " \/ is_boundary(c)
             THEN LET flushed == IF k < i
                                 THEN Append(result, Token("ALPHANUM_RAW",
                                                           Slice(content, k, i)))
                                 ELSE result
                      symbol == IF c = " " THEN Space
                                ELSE Token("SYMBOL_RAW", << c >>)
                  IN  tokenize_content(content, i + 1, i + 1, FALSE,
                                       Append(flushed, symbol))
             ELSE IF ~ in_alphanumeric
             THEN tokenize_content(content, i + 1, i, TRUE, result)
             ELSE tokenize_content(content, i + 1, k, in_alphanumeric, result)

RECURSIVE tokenize_terms(_)
tokenize_terms(toks) ==
    IF toks = << >> THEN << >>
    ELSE LET token == Head(toks)
         IN  (IF token.ttype # "RAW" THEN << token >>
              ELSE tokenize_content(token.content, 0, 0, FALSE, << >>))
               \o tokenize_terms(Tail(toks))

RECURSIVE keep_tokens(_, _, _)
\* The for loop of remove_consecutive_whitespaces from index i on
keep_tokens(toks, i, result) ==
    IF i >= Len(toks) THEN result
    ELSE keep_tokens(toks, i + 1,
                     IF \/ toks[i + 1].ttype # "WHITESPACE"
                        \/ i = 0
                        \/ toks[i].ttype # "WHITESPACE"
                     THEN Append(result, toks[i + 1]) ELSE result)

remove_consecutive_whitespaces(toks) ==
    LET kept == keep_tokens(toks, 0, << >>)
        headless == IF Len(kept) > 0 /\ kept[1].ttype = "WHITESPACE"
                    THEN Tail(kept) ELSE kept
    IN  IF Len(headless) > 0 /\ headless[Len(headless)].ttype = "WHITESPACE"
        THEN SubSeq(headless, 1, Len(headless) - 1) ELSE headless

\* ''.join([t.content for t in tokens])
Contents(toks) == Flatten([i \in 1 .. Len(toks) |-> toks[i].content])

\* join_tokens: the joined contents, stripped
join_tokens(toks) == lstrip(rstrip(Contents(toks)))

----------------------------------------------------------------------------
(* The clause splitter and the column rewriter *)

\* The spellings of the keywords: lower case, mixed case, upper case
Spellings ==
    { << "select", "Select", "SELECT" >>, << "distinct", "Distinct", "DISTINCT" >>,
      << "where", "Where", "WHERE" >>, << "order", "Order", "ORDER" >>,
      << "by", "By", "BY" >>, << "inner", "Inner", "INNER" >>,
      << "left", "Left", "LEFT" >>, << "strict", "Strict", "STRICT" >>,
      << "join", "Join", "JOIN" >>, << "on", "On", "ON" >> }

\* w.upper() of one element: a keyword in any spelling becomes its upper-case
\* spelling; every other element of the model stands for its own upper case
UpperWord(w) ==
    IF \E s \in Spellings : w \in { s[1], s[2], s[3] }
    THEN (CHOOSE s \in Spellings : w \in { s[1], s[2], s[3] })[3]
    ELSE Upper(w)

\* content.upper()
upper(content) == [i \in 1 .. Len(content) |-> UpperWord(content[i])]

\* The column names of the model with their numbers; a0, a and A1 are no
\* column names
ColumnNumber(name) ==
    CASE name \in { "a1", "b1" } -> 1
      [] name \in { "a2", "b2" } -> 2
      [] OTHER -> 0

\* column_var_regex.match(text) is not None
column_var_regex(text) == Len(text) = 1 /\ text[1] \in { "a1", "a2" }

\* bcolumn_var_regex.match(text) is not None
bcolumn_var_regex(text) == Len(text) = 1 /\ text[1] \in { "b1", "b2" }

\* 'fields[{}]'.format(column_number - 1)
FieldRef(column_number) == IF column_number - 1 = 0 THEN "fields[0]" ELSE "fields[1]"

BFieldRef(column_number) == IF column_number - 1 = 0 THEN "bfields[0]" ELSE "bfields[1]"

replace_rbql_var(text) ==
    IF column_var_regex(text) THEN << FieldRef(ColumnNumber(text[1])) >>
    ELSE IF bcolumn_var_regex(text) THEN << BFieldRef(ColumnNumber(text[1])) >>
    ELSE NoText

\* Variant: the column names are substituted in the text of every token,
\* whatever its type
replace_column_vars_in_text(toks) ==
    [i \in 1 .. Len(toks) |->
       Token(toks[i].ttype,
             [j \in 1 .. Len(toks[i].content) |->
                LET r == replace_rbql_var(<< toks[i].content[j] >>)
                IN  IF r # NoText THEN r[1] ELSE toks[i].content[j]])]

replace_column_vars(toks) ==
    [i \in 1 .. Len(toks) |->
       IF toks[i].ttype = "STRING_LITERAL" THEN toks[i]
       ELSE LET replaced_py_var == replace_rbql_var(toks[i].content)
            IN  IF replaced_py_var # NoText
                THEN Token(toks[i].ttype, replaced_py_var) ELSE toks[i]]

\* The index of the nearest token on one side of i (0-based, step is -1 or
\* 1) after at most one token with content ' '
Neighbour(toks, i, step) ==
    LET j == i + step
    IN  IF j >= 0 /\ j < Len(toks) /\ toks[j + 1].content = << " " >>
        THEN j + step ELSE j

\* Variant: the right neighbour is not looked at
StarIsFieldLeftOnly(toks, i) ==
    LET l == Neighbour(toks, i, 0 - 1)
    IN  l >= 0 => toks[l + 1].content[Len(toks[l + 1].content)] = ","

\* The test replace_star_vars makes on tokens[i]: a neighbour, where there is
\* one, ends (on the left) or starts (on the right) with a comma.  The two
\* assertions hold: after at most one ' ' no other ' ' follows in a list
\* that went through remove_consecutive_whitespaces.
StarIsField(toks, i) ==
    LET l == Neighbour(toks, i, 0 - 1)
        r == Neighbour(toks, i, 1)
    IN  /\ l >= 0 => toks[l + 1].content[Len(toks[l + 1].content)] = ","
        /\ r < Len(toks) => toks[r + 1].content[1] = ","

RECURSIVE replace_star_from(_, _)
\* The for loop of replace_star_vars from index i on
replace_star_from(toks, i) ==
    IF i >= Len(toks) THEN toks
    ELSE IF \/ toks[i + 1].ttype = "STRING_LITERAL"
            \/ toks[i + 1].content # << "*" >>
            \/ ~ StarIsField(toks, i)
    THEN replace_star_from(toks, i + 1)
    ELSE replace_star_from([toks EXCEPT ![i + 1].content = << "star_line" >>],
                           i + 1)

replace_star_vars(toks) == replace_star_from(toks, 0)

\* The patterns of separate_actions, sorted by length, longest first
PatternTexts ==
    << "STRICT LEFT JOIN", "SELECT DISTINCT", "INNER JOIN", "LEFT JOIN",
       "ORDER BY", "SELECT", "WHERE" >>

\* text.split(' ')
PatternFields(text) ==
    CASE text = "STRICT LEFT JOIN" -> << "STRICT", "LEFT", "JOIN" >>
      [] text = "SELECT DISTINCT" -> << "SELECT", "DISTINCT" >>
      [] text = "INNER JOIN" -> << "INNER", "JOIN" >>
      [] text = "LEFT JOIN" -> << "LEFT", "JOIN" >>
      [] text = "ORDER BY" -> << "ORDER", "BY" >>
      [] OTHER -> << text >>

Pattern(text) ==
    LET fields == PatternFields(text)
    IN  [text |-> text,
         tokens |-> [i \in 1 .. 2 * Len(fields) - 1 |->
                       IF i % 2 = 1
                       THEN Token("ALPHANUM_RAW", << fields[(i + 1) \div 2] >>)
                       ELSE Space],
         size |-> 2 * Len(fields) - 1]

Patterns == [p \in 1 .. Len(PatternTexts) |-> Pattern(PatternTexts[p])]

\* The tests of consume_action on a pattern once it fits into the tokens
PatternMatches(pattern, toks, idx) ==
    LET input_slice == Slice(toks, idx, idx + pattern.size)
    IN  /\ [t \in 1 .. Len(input_slice) |-> upper(input_slice[t].content)]
             = [t \in 1 .. pattern.size |-> pattern.tokens[t].content]
        /\ [t \in 1 .. Len(input_slice) |-> input_slice[t].ttype]
             = [t \in 1 .. pattern.size |-> pattern.tokens[t].ttype]

\* not (idx + pattern.size >= len(tokens))
PatternFits(pattern, toks, idx) == ~ (idx + pattern.size >= Len(toks))

\* The pair (action, i_next); "" is None
consume_action(patterns, toks, idx) ==
    IF toks[idx + 1].ttype = "STRING_LITERAL"
    THEN [action |-> "", i_next |-> idx + 1]
    ELSE LET found == { p \in 1 .. Len(patterns) :
                          /\ PatternFits(patterns[p], toks, idx)
                          /\ PatternMatches(patterns[p], toks, idx) }
         IN  IF found = { } THEN [action |-> "", i_next |-> idx + 1]
             ELSE LET pattern == patterns[CHOOSE p \in found :
                                             \A q \in found : p <= q]
                  IN  [action |-> pattern.text, i_next |-> idx + pattern.size]

RECURSIVE strip_tokens(_)
strip_tokens(toks) ==
    IF Len(toks) > 0 /\ toks[1].content = << " " >>
    THEN strip_tokens(Tail(toks))
    ELSE IF Len(toks) > 0 /\ toks[Len(toks)].content = << " " >>
    THEN strip_tokens(SubSeq(toks, 1, Len(toks) - 1))
    ELSE toks

\* The parsing errors: kind names the message, what its argument
NoParsingError == [kind |-> "", what |-> "", line |-> 0]

RBParsingError(kind, what, line) == [kind |-> kind, what |-> what, line |-> line]

\* result[prev_action] = strip_tokens(tokens[k:i]) if prev_action is not None
WithClause(result, prev_action, toks, k, i) ==
    IF prev_action # ""
    THEN (prev_action :> strip_tokens(Slice(toks, k, i))) @@ result
    ELSE result

\* action in result
ActionInResult(action, result) == action \in DOMAIN result

RECURSIVE separate_from(_, _, _, _, _)
\* The while loop of separate_actions from index i on, and the lines after it
separate_from(toks, i, k, prev_action, result) ==
    IF i >= Len(toks)
    THEN [error |-> NoParsingError,
          result |-> WithClause(result, prev_action, toks, k, i)]
    ELSE LET consumed == consume_action(Patterns, toks, i)
             action == consumed.action
             closed == WithClause(result, prev_action, toks, k, i)
         IN  IF action = ""
             THEN separate_from(toks, consumed.i_next, k, prev_action, result)
             ELSE IF ActionInResult(action, closed)
             THEN [error |-> RBParsingError("MoreThanOne", action, 0),
                   result |-> closed]
             ELSE separate_from(toks, consumed.i_next, consumed.i_next, action,
                                closed)

separate_actions(toks) == separate_from(toks, 0, 0, "", << >>)

RECURSIVE split(_, _)
\* s.split(sep) for a separator of one character
split(s, sep) ==
    IF \A i \in 1 .. Len(s) : s[i] # sep THEN << s >>
    ELSE LET i == CHOOSE n \in 1 .. Len(s) :
                    s[n] = sep /\ \A m \in 1 .. n - 1 : s[m] # sep
         IN  << SubSeq(s, 1, i - 1) >> \o split(SubSeq(s, i + 1, Len(s)), sep)

NoJoin == [error |-> NoParsingError, path |-> NoText, lhs |-> NoText,
           rhs |-> NoText]

\* Variant: the two sides of == are not swapped when the A column is on the
\* right
parse_join_expression_unswapped(toks) ==
    LET words == split(join_tokens(toks), " ")
        fail == [NoJoin EXCEPT !.error = RBParsingError("IncorrectJoinSyntax", "", 0)]
    IN  IF Len(words) # 5 \/ upper(words[2]) # << "ON" >> \/ words[4] # << "=", "=" >>
        THEN fail
        ELSE IF ~ column_var_regex(words[3]) \/ ~ bcolumn_var_regex(words[5])
        THEN fail
        ELSE [error |-> NoParsingError, path |-> words[1],
              lhs |-> replace_rbql_var(words[3]),
              rhs |-> replace_rbql_var(words[5])]

\* The triple (rhs_table_path, lhs_join_var, rhs_join_var), or the error
parse_join_expression(toks) ==
    LET words == split(join_tokens(toks), " ")
        fail == [NoJoin EXCEPT !.error = RBParsingError("IncorrectJoinSyntax", "", 0)]
    IN  IF Len(words) # 5 \/ upper(words[2]) # << "ON" >> \/ words[4] # << "=", "=" >>
        THEN fail
        ELSE LET swap == column_var_regex(words[5])
                 w3 == IF swap THEN words[5] ELSE words[3]
                 w5 == IF swap THEN words[3] ELSE words[5]
             IN  IF ~ column_var_regex(w3) \/ ~ bcolumn_var_regex(w5)
                 THEN fail
                 ELSE [error |-> NoParsingError, path |-> words[1],
                       lhs |-> replace_rbql_var(w3),
                       rhs |-> replace_rbql_var(w5)]

----------------------------------------------------------------------------
(* parse_to_py: the pieces of the plan *)

\* s.endswith(suffix)
endswith(s, suffix) ==
    /\ Len(s) >= Len(suffix)
    /\ SubSeq(s, Len(s) - Len(suffix) + 1, Len(s)) = suffix

\* cline.find("'''") != -1 or cline.find('"""') != -1
HasTripleQuote(cline) ==
    \E i \in 1 .. Len(cline) - 2 :
        cline[i] \in Quotes /\ cline[i + 1] = cline[i] /\ cline[i + 2] = cline[i]

\* The lines of rbql_lines that are not empty, in their order
NonEmpty(lines) == SelectSeq(lines, LAMBDA l : Len(l) > 0)

\* The keys of ops that are in the clause map
Present(ops, clause_map) == ops \cap DOMAIN clause_map

SelectOps == { "SELECT", "SELECT DISTINCT" }

WriterName(select_op) ==
    IF select_op = "SELECT" THEN "SimpleWriter" ELSE "UniqWriter"

NoPlan ==
    [select_op |-> "", join_op |-> "", writer_type |-> "",
     joiner_type |-> "none_joiner", rhs_table_path |-> NoText,
     lhs_join_var |-> NoText, rhs_join_var |-> NoText,
     where_expression |-> << >>, select_expression |-> << >>,
     sort_flag |-> FALSE, reverse_flag |-> FALSE,
     sort_key_expression |-> NoText]

\* order_expression[:-len(direction_marker)].rstrip() if the expression in
\* upper case ends with the marker, else the expression
WithoutMarker(order_expression, direction_marker) ==
    IF endswith(upper(order_expression), direction_marker)
    THEN rstrip(SubSeq(order_expression, 1,
                       Len(order_expression) - Len(direction_marker)))
    ELSE order_expression

\* select_tokens of lines 601-602
SelectTokens(select_op, clause_map) ==
    replace_star_vars(replace_column_vars(clause_map[select_op]))

\* Lines 598-621: the WHERE, SELECT and ORDER BY entries of py_meta_params
Expressions(p, clause_map) ==
    LET order_expression ==
            join_tokens(replace_column_vars(clause_map["ORDER BY"]))
        sorting == "ORDER BY" \in DOMAIN clause_map
    IN  [p EXCEPT
           !.where_expression =
               IF "WHERE" \in DOMAIN clause_map
               THEN join_tokens(replace_column_vars(clause_map["WHERE"]))
               ELSE << "True" >>,
           !.select_expression =
               join_tokens(SelectTokens(p.select_op, clause_map)),
           !.sort_flag = sorting,
           !.reverse_flag =
               sorting /\ endswith(upper(order_expression), << " ", "DESC" >>),
           !.sort_key_expression =
               IF sorting
               THEN WithoutMarker(WithoutMarker(order_expression, << " ", "DESC" >>),
                                  << " ", "ASC" >>)
               ELSE NoText]

\* The generated module file before parse_to_py runs
NoFile == [exists |-> FALSE, content |-> NoPlan]

\* A module file of that name left by an earlier run
StaleFile == [exists |-> TRUE, content |-> [NoPlan EXCEPT !.select_op = "stale"]]

\* The parser is not running
ParserOff ==
    /\ phase = "off"
    /\ py_dst = << >>
    /\ rbql_lines = << >>
    /\ tokens = << >>
    /\ actions = << >>
    /\ plan = NoPlan
    /\ parse_error = NoParsingError
    /\ py_file = NoFile
    /\ streams = "closed"

\* No stream is iterated
RowsOff ==
    /\ stream = << >>
    /\ chunksize = 1
    /\ fstream = << >>
    /\ chunk = << >>
    /\ incomplete_row = NoText
    /\ yielded = << >>
    /\ at = "off"

----------------------------------------------------------------------------
(* rb_transform *)

NoEntry == [key |-> << >>, rec |-> << >>, nr |-> 0]

Step(stages, exc, bad_idx, res, bfields, lhs_key, outcome, entry) ==
    [stages |-> stages, exc |-> exc, bad_idx |-> bad_idx, res |-> res,
     bfields |-> bfields, lhs_key |-> lhs_key, outcome |-> outcome,
     entry |-> entry]

\* Variant: the SELECT expressions are evaluated before the WHERE expression
AfterJoinSelectFirst(p, nr, fields, stages, res, bfields, lhs_key, star_line) ==
    LET o == EvalSelect(p.select_expression, fields, bfields, star_line)
        s1 == Append(stages, "select")
    IN  IF o.exc # ""
        THEN Step(s1, o.exc, o.bad_idx, res, bfields, lhs_key, "raise", NoEntry)
        ELSE
        LET w == EvalWhere(p.where_expression, fields, bfields, star_line)
            s2 == Append(s1, "where")
        IN  IF w.exc # ""
            THEN Step(s2, w.exc, w.bad_idx, res, bfields, lhs_key, "raise", NoEntry)
            ELSE IF ~w.val
            THEN Step(s2, "", 0, res, bfields, lhs_key, "continue", NoEntry)
            ELSE IF ~p.sort_flag
            THEN Step(s2, "", 0, res, bfields, lhs_key, "write",
                      [key |-> << >>, rec |-> JoinOutFields(o.val), nr |-> nr])
            ELSE
            LET k == EvalSortKey(p.sort_key_expression, fields, bfields, star_line)
                s3 == Append(s2, "sort_key")
            IN  IF k.exc # ""
                THEN Step(s3, k.exc, k.bad_idx, res, bfields, lhs_key, "raise", NoEntry)
                ELSE Step(s3, "", 0, res, bfields, lhs_key, "append",
                          [key |-> k.val, rec |-> JoinOutFields(o.val), nr |-> nr])

\* The try block of the loop body from the WHERE expression on, with
\* bfields and star_line bound.
AfterJoin(p, nr, fields, stages, res, bfields, lhs_key, star_line) ==
    LET w == EvalWhere(p.where_expression, fields, bfields, star_line)
        s1 == Append(stages, "where")
    IN  IF w.exc # ""
        THEN Step(s1, w.exc, w.bad_idx, res, bfields, lhs_key, "raise", NoEntry)
        ELSE IF ~w.val
        THEN Step(s1, "", 0, res, bfields, lhs_key, "continue", NoEntry)
        ELSE
        LET o == EvalSelect(p.select_expression, fields, bfields, star_line)
            s2 == Append(s1, "select")
        IN  IF o.exc # ""
            THEN Step(s2, o.exc, o.bad_idx, res, bfields, lhs_key, "raise", NoEntry)
            ELSE IF ~p.sort_flag
            THEN Step(s2, "", 0, res, bfields, lhs_key, "write",
                      [key |-> << >>, rec |-> JoinOutFields(o.val), nr |-> nr])
            ELSE
            LET k == EvalSortKey(p.sort_key_expression, fields, bfields, star_line)
                s3 == Append(s2, "sort_key")
            IN  IF k.exc # ""
                THEN Step(s3, k.exc, k.bad_idx, res, bfields, lhs_key, "raise", NoEntry)
                ELSE Step(s3, "", 0, res, bfields, lhs_key, "append",
                          [key |-> k.val, rec |-> JoinOutFields(o.val), nr |-> nr])

\* One pass of the try block for the line numbered nr
LoopBody(p, j, nr, line) ==
    LET fields == line
    IN  IF j.type = "none_joiner"
        THEN AfterJoin(p, nr, fields, << >>, "", BFieldsUnset, << >>, line)
        ELSE
        LET k == EvalTerm(p.lhs_join_var, fields, BFieldsUnset, line)
        IN  IF k.exc # ""
            THEN Step(<< "join_key" >>, k.exc, k.bad_idx, "", BFieldsUnset, << >>,
                      "raise", NoEntry)
            ELSE
            LET g == JoinerGet(j, k.val)
                st == << "join_key", "get" >>
            IN  CASE g.res = "raise" ->
                       Step(st, "RbqlRuntimeError", 0, g.res, g.bfields, k.val,
                            "raise", NoEntry)
                  [] g.res = "None" ->
                       Step(st, "", 0, g.res, g.bfields, k.val, "continue", NoEntry)
                  [] OTHER ->
                       AfterJoin(p, nr, fields, st, g.res, g.bfields, k.val,
                                 line \o JoinDLM([i \in 1 .. Len(g.bfields.items) |->
                                                    str6(<< g.bfields.items[i] >>)]))

\* The except clauses of the loop body
RuntimeError(step, nr) ==
    CASE step.exc = "BadFieldError" -> NoAColumn(step.bad_idx, nr)
      [] step.exc = "RbqlRuntimeError" -> ErrorAtLine(nr, "StrictLeftJoinKeyNotFound", step.lhs_key)
      [] OTHER -> ErrorAtLine(nr, step.exc, << >>)

NoLast == [nr |-> 0, line |-> << >>, stages |-> << >>, res |-> "",
           bfields |-> BFieldsUnset, lhs_key |-> << >>, outcome |-> "",
           entry |-> NoEntry]

Init ==
    /\ rb_actions \in Queries
    /\ params = PyMetaParams(rb_actions)
    /\ pc = "start"
    /\ NR = 0
    /\ joiner = NoneJoiner
    /\ il = 0
    /\ b_line = << >>
    /\ unsorted_entries = << >>
    /\ seen = { }
    /\ destination = << >>
    /\ error = NoError
    /\ last = NoLast
    /\ ParserOff
    /\ RowsOff

\* writer = {writer_type}(destination); joiner = {joiner_type}(path) up to
\* the isfile test and the opening of the B file in read_join_table
Construct ==
    /\ pc = "start"
    /\ IF params.joiner_type = "none_joiner"
       THEN /\ joiner' = NoneJoiner
            /\ pc' = "loop"
            /\ error' = error
       ELSE \E accessible \in BOOLEAN :
              /\ joiner' = [type |-> params.joiner_type, join_data |-> { },
                            fields_max_len |-> 0]
              /\ error' = IF accessible THEN error ELSE NotAccessible
              /\ pc' = IF accessible THEN "load" ELSE "error"
    /\ UNCHANGED << rb_actions, params, NR, il, b_line, unsorted_entries, seen,
                    destination, last >>
    /\ UNCHANGED << parseVars, rowsVars >>

\* One pass of the loop of read_join_table over rows(src_text)
LoadRow ==
    /\ pc = "load"
    /\ il < MaxB
    /\ \E line \in Lines :
         LET r == ReadJoinRow(joiner.join_data, joiner.fields_max_len, il + 1,
                              line, params.rhs_join_var)
         IN  /\ il' = il + 1
             /\ b_line' = line
             /\ joiner' = [type |-> joiner.type, join_data |-> r.join_data,
                           fields_max_len |-> r.fields_max_len]
             /\ error' = r.error
             /\ pc' = IF r.error = NoError THEN "load" ELSE "error"
    /\ UNCHANGED << rb_actions, params, NR, unsorted_entries, seen, destination,
                    last >>
    /\ UNCHANGED << parseVars, rowsVars >>

\* rows(src_text) is exhausted: read_join_table returns
LoadEnd ==
    /\ pc = "load"
    /\ pc' = "loop"
    /\ b_line' = << >>
    /\ UNCHANGED << rb_actions, params, NR, joiner, il, unsorted_entries, seen,
                    destination, error, last >>
    /\ UNCHANGED << parseVars, rowsVars >>

\* Variant: the writer is also called when the try block raised
WrittenAlsoOnError(step) == step.outcome \in { "write", "raise" }

\* writer.write is called in this pass
Written(step) == step.outcome = "write"

\* One pass of the for loop over rows(source)
ProcessRecord ==
    /\ pc = "loop"
    /\ NR < MaxA
    /\ \E line \in Lines :
         LET nr == NR + 1
             step == LoopBody(params, joiner, nr, line)
             w == WriterWrite(params.writer_type,
                              [dst |-> destination, seen |-> seen], step.entry)
         IN  /\ NR' = nr
             /\ last' = [nr |-> nr, line |-> line, stages |-> step.stages,
                         res |-> step.res, bfields |-> step.bfields,
                         lhs_key |-> step.lhs_key, outcome |-> step.outcome,
                         entry |-> step.entry]
             /\ unsorted_entries' = IF step.outcome = "append"
                                    THEN Append(unsorted_entries, step.entry)
                                    ELSE unsorted_entries
             /\ destination' = IF Written(step) THEN w.dst ELSE destination
             /\ seen' = IF Written(step) THEN w.seen ELSE seen
             /\ error' = IF step.outcome = "raise" THEN RuntimeError(step, nr) ELSE error
             /\ pc' = IF step.outcome = "raise" THEN "error" ELSE "loop"
    /\ UNCHANGED << rb_actions, params, joiner, il, b_line >>
    /\ UNCHANGED << parseVars, rowsVars >>

\* rows(source) is exhausted: sort and write the buffered entries
EndOfStream ==
    /\ pc = "loop"
    /\ LET sorted == IF Len(unsorted_entries) > 0
                     THEN Sorted(unsorted_entries, params.reverse_flag)
                     ELSE unsorted_entries
           w == WriteAll(params.writer_type, [dst |-> destination, seen |-> seen],
                         sorted, 1)
       IN  /\ unsorted_entries' = sorted
           /\ destination' = w.dst
           /\ seen' = w.seen
    /\ pc' = "done"
    /\ UNCHANGED << rb_actions, params, NR, joiner, il, b_line, error, last >>
    /\ UNCHANGED << parseVars, rowsVars >>

Next == Construct \/ LoadRow \/ LoadEnd \/ ProcessRecord \/ EndOfStream

Spec == Init /\ [][Next]_vars

----------------------------------------------------------------------------
(* parse_to_py and main *)

\* The executor is not running
ExecOff ==
    /\ rb_actions = << >>
    /\ params = << >>
    /\ pc = "off"
    /\ NR = 0
    /\ joiner = NoneJoiner
    /\ il = 0
    /\ b_line = << >>
    /\ unsorted_entries = << >>
    /\ seen = { }
    /\ destination = << >>
    /\ error = NoError
    /\ last = NoLast

\* The sequences over S of length 0 .. n
SeqsUpTo(S, n) == UNION { [1 .. k -> S] : k \in 0 .. n }

RECURSIVE SpaceJoin(_)
\* ' '.join(words)
SpaceJoin(words) ==
    IF Len(words) = 0 THEN << >>
    ELSE IF Len(words) = 1 THEN words[1]
    ELSE words[1] \o << " " >> \o SpaceJoin(Tail(words))

\* The longest query of keywords, the longest join clause body (in words),
\* the longest SELECT body and the longest line for the lexer (in characters)
MaxWords == 5
MaxJoinWords == 5
MaxBody == 5
MaxLine == 5

\* The longest line with comment signs (in characters)
MaxComment == 5

\* One-line queries of keywords and a column name, single spaces between
KeywordQueries ==
    { << SpaceJoin(ws) >> :
        ws \in SeqsUpTo({ << "Select" >>, << "distinct" >>, << "where" >>,
                          << "order" >>, << "by" >>, << "a1" >> }, MaxWords) }

\* One-line queries with a join clause whose body is words of a join
\* expression
JoinQueries ==
    { << << "select", " ", "a1", " ", "Left", " ", "join", " " >> \o SpaceJoin(ws) >> :
        ws \in SeqsUpTo({ << "B" >>, << "On" >>, << "a1" >>, << "b2" >>,
                          << "=", "=" >> }, MaxJoinWords) }

\* One-line queries whose SELECT body is any text of columns, stars, commas,
\* spaces and quotes
StarQueries ==
    { << << "select", " " >> \o body >> :
        body \in SeqsUpTo({ "a1", "*", ",", " ", "'" }, MaxBody) }

\* One line of letters, spaces, quotes of both kinds, backslashes and commas
LexQueries ==
    { << cline >> :
        cline \in SeqsUpTo({ "x", " ", "'", "\"", "\\", "," }, MaxLine) }

\* The lines of test_strip .. test_strip4, and the first two with tabs for
\* spaces and a quote mark of the other kind
CommentSamples ==
    { << "v", " ", "=", " ", "\"", "hello", "\"", " ", "#", "world", " ", " " >>,
      << "v", " ", "=", " ", "\"", "hel", "\\", "\"", "lo", "\"", " ", "#", "w", "'",
         "or", "\"", "ld", " ", " " >>,
      << "v", " ", "=", " ", "\"", "hello", "\\", "\\", "\"", " ", "#", "w", "'",
         "or", "\"", "ld", " ", " " >>,
      << " ", "#", " ", "a", " ", "comment" >>,
      << "v", "\t", "=", "\t", "'", "hel", "\t", "#", "\"", "lo", "'", "\t", " ", "#",
         "world", "\t" >>,
      << "v", " ", "=", " ", "'", "hel", "\\", "'", "lo", "#", "'", "\t", "\t" >> }

\* One line of letters, spaces, quotes of both kinds, backslashes and comment
\* signs, and the sample lines
CommentQueries ==
    { << cline >> :
        cline \in SeqsUpTo({ "x", " ", "'", "\"", "\\", "#" }, MaxComment)
                    \cup CommentSamples }

\* Sample queries: one of each shape the parser tells apart
SampleQueries ==
    { << << "select", " ", "a1" >> >>,
      << << "Select", " ", "distinct", " ", "a1", ",", " ", "*", " ", "#", "x" >>,
         << " ", "\t" >>,
         << "WHERE", " ", "a2", " ", "=", "=", " ", "'", "where", " ", "a1", "'",
            "\t", "order", " ", "by", " ", "a1", " ", "Desc" >> >>,
      << << "select", " ", "a1", ",", "b2", " ", "left", " ", "join", " ", "B",
            " ", "on", " ", "a1", " ", "=", "=", " ", "b1" >> >>,
      << << "select", " ", "*", " ", "INNER", " ", "JOIN", " ", "B", " ", "ON",
            " ", "b2", " ", "=", "=", " ", "a1", " ", "where", " ", "*" >> >>,
      << << "select", " ", "a1", " ", "strict", " ", "left", " ", "join", " ",
            "B", " ", "on", " ", "a1", "=", "=", "b1" >> >>,
      << << "select", " ", "a1", " ", "left", " ", "join", " ", "B", " ", "on",
            " ", "a1", " ", "=", "=", " ", "b1", " ", "x" >> >>,
      << << "select", " ", "a1", " ", "inner", " ", "join", " ", "B", " ", "on",
            " ", "a1", " ", "=", "=", " ", "b1", " ", "left", " ", "join", " ",
            "B", " ", "on", " ", "a2", " ", "=", "=", " ", "b2" >> >>,
      << << "select", " ", "a1", " ", "strict", " ", "left", " ", "join", " ",
            "B", " ", "on", " ", "a1", " ", "=", "=", " ", "b1", " ", "strict",
            " ", "left", " ", "join", " ", "x" >> >>,
      << << "select", " ", "a1" >>, << "where", " ", "'", "'", "'" >> >>,
      << << "select", " ", "\"", "\"", "\"" >> >>,
      << << "select", " ", "where", " ", "a1" >> >>,
      << << "select", " ", "func", "(", "*", ")", " ", "order", " ", "by", " ",
            "*", " ", "asc" >> >>,
      << << "select", " ", "'", "select", "'", ",", "'", "a1", "'", ",", "\"",
            "*", "\"", ",", "*" >> >>,
      << << "select", " ", "a0", ",", "A1", ",", "a1" >> >>,
      << << "a1" >> >>,
      << << "#", "select", " ", "a1" >> >> }

\* The path of the module to generate: with and without the .py extension
Destinations == { << "rbconvert", ".", "py" >>, << "rbconvert" >> }

\* The state in which parse_to_py is called on one of the queries
ParserInit(queries) ==
    /\ phase = "start"
    /\ \/ /\ rbql_lines \in queries
          /\ py_dst = << "rbconvert", ".", "py" >>
          /\ py_file = NoFile
       \/ /\ rbql_lines \in SampleQueries
          /\ py_dst \in Destinations
          /\ py_file \in { NoFile, StaleFile }
    /\ tokens = << >>
    /\ actions = << >>
    /\ plan = NoPlan
    /\ parse_error = NoParsingError
    /\ streams = "closed"
    /\ ExecOff
    /\ RowsOff

\* except RBParsingError of main: the message is printed, the process exits
Raise(e) ==
    /\ parse_error' = e
    /\ phase' = "exit"

\* Lines 544-553: the extension of py_dst, then line by line the test for
\* triple quotes and strip_comments, then the empty lines are dropped
CheckAndStrip ==
    /\ phase = "start"
    /\ LET bad == { n \in 1 .. Len(rbql_lines) : HasTripleQuote(rbql_lines[n]) }
           first == CHOOSE n \in bad : \A m \in bad : n <= m
           stripped == [n \in 1 .. Len(rbql_lines) |-> strip_comments(rbql_lines[n])]
       IN  IF ~ endswith(py_dst, << ".", "py" >>)
           THEN Raise(RBParsingError("NoPyExtension", "", 0)) /\ UNCHANGED rbql_lines
           ELSE IF bad # { }
           THEN /\ Raise(RBParsingError("MultilineNotAllowed", "", first))
                /\ rbql_lines' = [n \in 1 .. Len(rbql_lines) |->
                                    IF n < first THEN stripped[n] ELSE rbql_lines[n]]
           ELSE /\ rbql_lines' = NonEmpty(stripped)
                /\ phase' = "lines"
                /\ UNCHANGED parse_error
    /\ UNCHANGED << py_dst, tokens, actions, plan, py_file, streams >>
    /\ UNCHANGED << execVars, rowsVars >>

\* Lines 555-557
Tokenize ==
    /\ phase = "lines"
    /\ tokens' = remove_consecutive_whitespaces(
                     tokenize_terms(tokenize_string_literals(rbql_lines)))
    /\ phase' = "tokens"
    /\ UNCHANGED << py_dst, rbql_lines, actions, plan, parse_error, py_file, streams >>
    /\ UNCHANGED << execVars, rowsVars >>

\* Line 558
SeparateActions ==
    /\ phase = "tokens"
    /\ LET separated == separate_actions(tokens)
       IN  IF separated.error # NoParsingError
           THEN Raise(separated.error) /\ UNCHANGED actions
           ELSE /\ actions' = separated.result
                /\ phase' = "clauses"
                /\ UNCHANGED parse_error
    /\ UNCHANGED << py_dst, rbql_lines, tokens, plan, py_file, streams >>
    /\ UNCHANGED << execVars, rowsVars >>

\* Lines 560-583.  The loops over select_ops.items() and join_ops.items()
\* keep the last key that is in the clause map; the order of the items of a
\* dict is the interpreter's, so any key that is in the map may be the last.
ChooseOps ==
    /\ phase = "clauses"
    /\ IF Present(SelectOps, actions) = { }
       THEN Raise(RBParsingError("SelectNotFound", "", 0)) /\ UNCHANGED plan
       ELSE \E select_op \in Present(SelectOps, actions) :
            \E join_op \in IF Present(JoinOps, actions) = { } THEN { "" }
                           ELSE Present(JoinOps, actions) :
              LET joined == IF join_op = "" THEN NoJoin
                            ELSE parse_join_expression(actions[join_op])
              IN  IF joined.error # NoParsingError
                  THEN Raise(joined.error) /\ UNCHANGED plan
                  ELSE /\ plan' = [NoPlan EXCEPT
                                     !.select_op = select_op,
                                     !.join_op = join_op,
                                     !.writer_type = WriterName(select_op),
                                     !.joiner_type = JoinerName(join_op),
                                     !.rhs_table_path = joined.path,
                                     !.lhs_join_var = joined.lhs,
                                     !.rhs_join_var = joined.rhs]
                       /\ phase' = "ops"
                       /\ UNCHANGED parse_error
    /\ UNCHANGED << py_dst, rbql_lines, tokens, actions, py_file, streams >>
    /\ UNCHANGED << execVars, rowsVars >>

\* Variant: the module file is opened for writing before the SELECT
\* expression is looked at
RewriteAfterOpen ==
    /\ phase = "ops"
    /\ py_file' = [exists |-> TRUE, content |-> NoPlan]
    /\ IF Len(SelectTokens(plan.select_op, actions)) = 0
       THEN Raise(RBParsingError("SelectIsEmpty", "", 0)) /\ UNCHANGED plan
       ELSE /\ plan' = Expressions(plan, actions)
            /\ phase' = "plan"
            /\ UNCHANGED parse_error
    /\ UNCHANGED << py_dst, rbql_lines, tokens, actions, streams >>
    /\ UNCHANGED << execVars, rowsVars >>

\* Lines 585-621
Rewrite ==
    /\ phase = "ops"
    /\ IF Len(SelectTokens(plan.select_op, actions)) = 0
       THEN Raise(RBParsingError("SelectIsEmpty", "", 0)) /\ UNCHANGED plan
       ELSE /\ plan' = Expressions(plan, actions)
            /\ phase' = "plan"
            /\ UNCHANGED parse_error
    /\ UNCHANGED << py_dst, rbql_lines, tokens, actions, py_file, streams >>
    /\ UNCHANGED << execVars, rowsVars >>

\* Lines 623-624: the module is written from the template and the plan
WriteModule ==
    /\ phase = "plan"
    /\ py_file' = [exists |-> TRUE, content |-> plan]
    /\ phase' = "written"
    /\ UNCHANGED << py_dst, rbql_lines, tokens, actions, plan, parse_error, streams >>
    /\ UNCHANGED << execVars, rowsVars >>

\* main after parse_to_py returned: the module is imported, the streams are
\* opened and rb_transform is called
RunModule ==
    /\ phase = "written"
    /\ streams' = "open"
    /\ phase' = "running"
    /\ UNCHANGED << py_dst, rbql_lines, tokens, actions, plan, parse_error, py_file >>
    /\ UNCHANGED << execVars, rowsVars >>

ParseNext ==
    CheckAndStrip \/ Tokenize \/ SeparateActions \/ ChooseOps \/ Rewrite
    \/ WriteModule \/ RunModule

KeywordInit == ParserInit(KeywordQueries)

JoinInit == ParserInit(JoinQueries)

StarInit == ParserInit(StarQueries)

LexInit == ParserInit(LexQueries)

CommentInit == ParserInit(CommentQueries)

\* parse_to_py on queries of keywords
SplitSpec == KeywordInit /\ [][ParseNext]_vars

\* parse_to_py on queries with a join clause
JoinSpec == JoinInit /\ [][ParseNext]_vars

\* parse_to_py on queries with any SELECT body
StarSpec == StarInit /\ [][ParseNext]_vars

\* parse_to_py on any short line
LexSpec == LexInit /\ [][ParseNext]_vars

\* parse_to_py on any short line with comment signs
CommentSpec == CommentInit /\ [][ParseNext]_vars

----------------------------------------------------------------------------
(* rows(f, chunksize, sep): the record iterator of the generated module; *)
(* fstream is what is left to read of f                                  *)

\* The longest stream and the largest chunk size
MaxStream == 4
MaxChunk == 3

\* sep, a single character
Sep == "\n"

Streams == SeqsUpTo({ Sep, "x", "y" }, MaxStream)

\* chunk.find(sep): the 0-based index of the first sep, -1 if there is none
find(s, c) ==
    IF \A n \in 1 .. Len(s) : s[n] # c THEN 0 - 1
    ELSE (CHOOSE n \in 1 .. Len(s) : s[n] = c /\ \A m \in 1 .. n - 1 : s[m] # c) - 1

\* Variant: the rest of a chunk replaces what was kept of the chunks before
CarryOverwrite(kept, rest) == rest

\* Lines 348-351: the rest of the chunk is appended to the incomplete row
Carry(kept, rest) == IF kept # NoText THEN kept \o rest ELSE rest

RowsInit ==
    /\ stream \in Streams
    /\ chunksize \in 1 .. MaxChunk
    /\ fstream = stream
    /\ chunk = << >>
    /\ incomplete_row = NoText
    /\ yielded = << >>
    /\ at = "read"
    /\ ExecOff
    /\ ParserOff

\* chunk = f.read(chunksize) on a stream that has characters left: at least
\* one and at most chunksize characters are returned
ReadChunk ==
    /\ at = "read"
    /\ fstream # << >>
    /\ \E n \in 1 .. Min(chunksize, Len(fstream)) :
         /\ chunk' = SubSeq(fstream, 1, n)
         /\ fstream' = SubSeq(fstream, n + 1, Len(fstream))
    /\ at' = "find"
    /\ UNCHANGED << stream, chunksize, incomplete_row, yielded >>
    /\ UNCHANGED << execVars, parseVars >>

\* f.read returns the empty string: the incomplete row is yielded unless it
\* is None or empty, and the generator returns
EndOfFile ==
    /\ at = "read"
    /\ fstream = << >>
    /\ chunk' = << >>
    /\ yielded' = IF incomplete_row # NoText /\ Len(incomplete_row) > 0
                  THEN Append(yielded, incomplete_row) ELSE yielded
    /\ at' = "done"
    /\ UNCHANGED << stream, chunksize, fstream, incomplete_row >>
    /\ UNCHANGED << execVars, parseVars >>

\* One pass of the inner loop that finds sep in the chunk
YieldRow ==
    /\ at = "find"
    /\ find(chunk, Sep) # 0 - 1
    /\ LET i == find(chunk, Sep)
       IN  /\ yielded' = Append(yielded,
                                IF incomplete_row # NoText
                                THEN incomplete_row \o Slice(chunk, 0, i)
                                ELSE Slice(chunk, 0, i))
           /\ chunk' = Slice(chunk, i + 1, Len(chunk))
    /\ incomplete_row' = NoText
    /\ UNCHANGED << stream, chunksize, fstream, at >>
    /\ UNCHANGED << execVars, parseVars >>

\* The inner loop breaks: the rest of the chunk is kept
KeepRest ==
    /\ at = "find"
    /\ find(chunk, Sep) = 0 - 1
    /\ incomplete_row' = Carry(incomplete_row, chunk)
    /\ at' = "read"
    /\ UNCHANGED << stream, chunksize, fstream, chunk, yielded >>
    /\ UNCHANGED << execVars, parseVars >>

RowsNext == ReadChunk \/ EndOfFile \/ YieldRow \/ KeepRest

RowsSpec == RowsInit /\ [][RowsNext]_vars

----------------------------------------------------------------------------
(* Properties *)

IsJoined == params.joiner_type # "none_joiner"

\* The term an evaluation stage of the loop body reads
StageTerm(stage) ==
    CASE stage = "join_key" -> params.lhs_join_var
      [] stage = "where" -> params.where_expression[1]
      [] stage = "select" -> params.select_expression[1]
      [] stage = "sort_key" -> params.sort_key_expression[1]
      [] OTHER -> ""

\* C1: ORDER BY is stable: two emitted records with equal sort keys appear
\* in the order their A records were read, whatever the projected records
\* are and whatever the direction is.
C1_StableByInsertion ==
    (pc = "done" /\ params.sort_flag) =>
        \A i, j \in 1 .. Len(destination) :
            (i < j /\ destination[i].key = destination[j].key)
                => destination[i].nr < destination[j].nr


\* The ORDER BY clause ends with the suffix ' DESC' in any letter case
ClauseEndsDesc(body) ==
    Len(body) >= 2 /\ body[Len(body)] \in { "desc", "Desc", "DESC" }

KeysMonotone(dst, descending) ==
    \A i \in 1 .. Len(dst) - 1 :
        IF descending THEN ~StrLess(dst[i].key, dst[i + 1].key)
        ELSE ~StrLess(dst[i + 1].key, dst[i].key)

Range(f) == { f[i] : i \in DOMAIN f }

NoTwoEqualRecords(dst) ==
    \A i, j \in 1 .. Len(dst) : i # j => dst[i].rec # dst[j].rec

\* dst holds the buffered entries, each once, or under DISTINCT one entry
\* for every buffered record
EmittedIsBuffered(dst, buffer) ==
    /\ Range(dst) \subseteq Range(buffer)
    /\ { e.rec : e \in Range(dst) } = { e.rec : e \in Range(buffer) }
    /\ IF params.writer_type = "UniqWriter" THEN NoTwoEqualRecords(dst)
       ELSE Len(dst) = Len(buffer) /\ Range(dst) = Range(buffer)

\* C2: with ORDER BY the sort keys of the emitted records are non-decreasing
\* unless the clause ends with ' DESC' in any letter case, and non-increasing
\* if it does; a trailing ' ASC' is dropped from the key expression; the
\* emitted records are the buffered ones (one per record under DISTINCT).
C2_SortedOutput ==
    /\ [](params.sort_flag =>
            params.sort_key_expression = << rb_actions.order[1] >>)
    /\ [][(pc = "loop" /\ pc' = "done" /\ params.sort_flag) =>
            /\ KeysMonotone(destination', ClauseEndsDesc(rb_actions.order))
            /\ EmittedIsBuffered(destination', unsorted_entries)]_vars

C2_Witness ==
    /\ pc = "done"
    /\ rb_actions.order = << "fields[1]", "asc", "DESC" >>
    /\ Len(destination) = 2
    /\ StrLess(destination[2].key, destination[1].key)
    /\ destination[1].nr = 2

\* C3: without ORDER BY the NR values of successive output records are
\* strictly increasing, NR counts every record read, and a record is in
\* the output only if it passed the join lookup and WHERE.
C3_InputOrder ==
    ~params.sort_flag =>
        /\ \A i, j \in 1 .. Len(destination) :
               i < j => destination[i].nr < destination[j].nr
        /\ \A i \in 1 .. Len(destination) : destination[i].nr \in 1 .. NR
        /\ last.nr = NR
        /\ (NR > 0 /\ last.outcome # "write") =>
               \A i \in 1 .. Len(destination) : destination[i].nr # NR
        /\ (NR > 0 /\ last.outcome = "write"
                   /\ params.writer_type = "SimpleWriter") =>
               /\ Len(destination) > 0
               /\ destination[Len(destination)].nr = NR
               /\ "where" \in Range(last.stages)
               /\ IsJoined => last.res = "row"

C3_Witness ==
    /\ ~params.sort_flag
    /\ params.where_expression # << "True" >>
    /\ NR = 2
    /\ Len(destination) = 1
    /\ destination[1].nr = 2
    /\ pc = "done"

\* C4: with SELECT DISTINCT the output never holds two equal records;
\* without ORDER BY the record of a written line is in the output from its
\* first occurrence on, with ORDER BY the first entry of the sorted stream
\* with a given record is the one emitted.
C4_Distinct ==
    params.writer_type = "UniqWriter" =>
        /\ NoTwoEqualRecords(destination)
        /\ seen = { e.rec : e \in Range(destination) }
        /\ (~params.sort_flag /\ last.outcome = "write") =>
               \E i \in 1 .. Len(destination) :
                   /\ destination[i].rec = last.entry.rec
                   /\ destination[i].nr <= last.nr
        /\ (params.sort_flag /\ pc = "done") =>
               \A k \in 1 .. Len(unsorted_entries) :
                   (\A m \in 1 .. k - 1 :
                        unsorted_entries[m].rec # unsorted_entries[k].rec)
                       <=> unsorted_entries[k] \in Range(destination)

C4_Witness ==
    /\ params.writer_type = "UniqWriter"
    /\ params.sort_flag
    /\ pc = "done"
    /\ Len(unsorted_entries) = 2
    /\ Len(destination) = 1


\* The A-side key of the last line and the B-side key of a B row, read
\* from the tables themselves
AKey(line) == << line[RefIdx(params.lhs_join_var) + 1] >>

BKey(row) == << row[RefIdx(params.rhs_join_var) + 1] >>

LookedUp == last.nr > 0 /\ "get" \in Range(last.stages)

Matching == { e \in joiner.join_data : BKey(e.bfields) = AKey(last.line) }

NothingKeptFor(nr) ==
    /\ \A i \in 1 .. Len(destination) : destination[i].nr # nr
    /\ \A i \in 1 .. Len(unsorted_entries) : unsorted_entries[i].nr # nr

\* C5: with INNER JOIN a line is written or buffered only with bfields
\* bound to the B row whose B-side key equals the line's A-side key, and a
\* line whose key is not in the join index is skipped right after the
\* lookup: no WHERE, no SELECT, no error, nothing kept.
C5_InnerJoin ==
    (params.joiner_type = "InnerJoiner" /\ LookedUp) =>
        /\ last.lhs_key = AKey(last.line)
        /\ \A e \in joiner.join_data : e.key = BKey(e.bfields)
        /\ last.outcome \in { "write", "append" } =>
               /\ last.res = "row"
               /\ last.bfields.items \in { e.bfields : e \in joiner.join_data }
               /\ BKey(last.bfields.items) = AKey(last.line)
        /\ Matching # { } =>
               /\ last.res = "row"
               /\ last.bfields.items \in { e.bfields : e \in Matching }
        /\ Matching = { } =>
               /\ last.stages = << "join_key", "get" >>
               /\ last.outcome = "continue"
               /\ pc # "error"
               /\ error = NoError
               /\ NothingKeptFor(last.nr)

C5_Witness ==
    /\ params.joiner_type = "InnerJoiner"
    /\ NR = 2
    /\ Len(destination) = 1
    /\ destination[1].nr = 1
    /\ LookedUp
    /\ Matching = { }
    /\ joiner.join_data # { }

\* The largest field count of the rows of the B table, 0 for an empty one
MaxFieldCount(join_data) ==
    IF join_data = { } THEN 0
    ELSE CHOOSE n \in { Len(e.bfields) : e \in join_data } :
             \A e \in join_data : Len(e.bfields) <= n

\* C6: with LEFT JOIN every line that is looked up reaches WHERE, with
\* bfields the matched B row or, for a key that is not in the index, as many
\* NULLs as the longest B row has fields (none for an empty table); a NULL
\* is projected as the string 'None'.  A line is not looked up only when
\* the evaluation of its join key ends the run.
C6_LeftJoin ==
    (params.joiner_type = "LeftJoiner" /\ last.nr > 0) =>
        /\ ~LookedUp => /\ pc = "error"
                        /\ error.kind = "NoAColumn"
                        /\ RefIdx(params.lhs_join_var) >= Len(last.line)
        /\ LookedUp =>
            /\ last.res = "row"
            /\ Len(last.stages) >= 3
            /\ last.stages[3] = "where"
            /\ last.outcome # "continue" \/ Len(last.stages) = 3
            /\ Matching # { } =>
                   last.bfields.items \in { e.bfields : e \in Matching }
            /\ Matching = { } =>
                   /\ last.bfields.items =
                          [i \in 1 .. MaxFieldCount(joiner.join_data) |-> NULL]
                   /\ (last.outcome \in { "write", "append" }
                         /\ params.select_expression[1] \in BFieldRefs) =>
                          last.entry.rec = << NoneStr >>
                   /\ (last.outcome \in { "write", "append" }
                         /\ params.select_expression[1] = "star_line") =>
                          last.entry.rec = last.line \o
                              [i \in 1 .. MaxFieldCount(joiner.join_data) |-> NoneStr]

C6_Witness ==
    /\ params.joiner_type = "LeftJoiner"
    /\ LookedUp
    /\ Matching = { }
    /\ joiner.fields_max_len = 2
    /\ params.select_expression = << "bfields[1]" >>
    /\ params.where_expression # << "True" >>
    /\ last.outcome = "write"
    /\ Len(destination) = 2
    /\ destination[2].rec = << NoneStr >>

\* C7: with STRICT LEFT JOIN a line whose key is not in the join index ends
\* the run right after the lookup (WHERE is not evaluated) with the runtime
\* error that names the key; the run goes on or completes only if the key
\* of every line read so far is in the index.
C7_StrictLeftJoin ==
    (params.joiner_type = "StrictLeftJoiner" /\ last.nr > 0) =>
        /\ (LookedUp /\ Matching = { }) =>
               /\ pc = "error"
               /\ error.kind = "ErrorAtLine"
               /\ error.details = "StrictLeftJoinKeyNotFound"
               /\ error.key = AKey(last.line)
               /\ error.line = last.nr
               /\ NR = last.nr
               /\ last.stages = << "join_key", "get" >>
               /\ NothingKeptFor(last.nr)
        /\ pc \in { "loop", "done" } => (LookedUp /\ Matching # { })

C7_Witness ==
    /\ params.joiner_type = "StrictLeftJoiner"
    /\ pc = "error"
    /\ error.details = "StrictLeftJoinKeyNotFound"
    /\ NR = 2
    /\ params.where_expression = << "fields[0]", "!=", "'0'" >>
    /\ last.line[1] = 0
    /\ Len(destination) = 1


KeysOf(join_data) == { e.key : e \in join_data }

\* C8: with any join mode, a B row whose B-side key is the key of a B row
\* read before it ends the run with the 'Join column must be unique' error
\* while B is loaded: no A record has been read and nothing is written or
\* buffered; a load that goes on or returns has read rows with distinct
\* keys only.
C8_DuplicateBKey ==
    IsJoined =>
        /\ (pc \in { "load", "loop", "done" } \/ NR > 0) =>
               /\ Cardinality(joiner.join_data) = il
               /\ Cardinality(KeysOf(joiner.join_data)) = il
               /\ \A e \in joiner.join_data : e.key = BKey(e.bfields)
        /\ (pc = "error" /\ NR = 0 /\ il > 0
              /\ RefIdx(params.rhs_join_var) < Len(b_line)) =>
               /\ BKey(b_line) \in KeysOf(joiner.join_data)
               /\ Cardinality(joiner.join_data) = il - 1
               /\ error = JoinNotUnique
        /\ error = JoinNotUnique =>
               /\ pc = "error"
               /\ BKey(b_line) \in KeysOf(joiner.join_data)
               /\ NR = 0
               /\ last = NoLast
               /\ destination = << >>
               /\ unsorted_entries = << >>
               /\ seen = { }
               /\ ~ENABLED Next

C8_Witness ==
    /\ params.joiner_type = "LeftJoiner"
    /\ error = JoinNotUnique
    /\ il = 2
    /\ Len(b_line) = 2
    /\ \E e \in joiner.join_data : e.key = BKey(b_line) /\ e.bfields # b_line

\* C9: when an expression evaluated for line n (join key, WHERE, SELECT or
\* ORDER BY key) reads fields[k] with k >= NF, the run ends there with the
\* error 'No "a<k+1>" column at line: <n>'; n counts all lines read and no
\* later line is processed.
C9_BadField ==
    last.nr > 0 =>
        \A i \in 1 .. Len(last.stages) :
            LET t == StageTerm(last.stages[i])
            IN  (t \in AFieldRefs /\ RefIdx(t) >= Len(last.line)) =>
                    /\ i = Len(last.stages)
                    /\ pc = "error"
                    /\ error.kind = "NoAColumn"
                    /\ error.col = RefIdx(t) + 1
                    /\ error.line = last.nr
                    /\ last.nr = NR
                    /\ NothingKeptFor(NR)
                    /\ ~ENABLED Next

C9_Witness ==
    /\ pc = "error"
    /\ error.kind = "NoAColumn"
    /\ error.col = 2
    /\ error.line = 2
    /\ last.stages[Len(last.stages)] = "sort_key"
    /\ Len(unsorted_entries) = 1

\* C10: for a joined line, bfields being a matched B row or the NULLs of an
\* unmatched LEFT JOIN line, an expression that reads bfields[k] with k not
\* below the length of bfields ends the run with the bad-field error for
\* index k + 1 and the line's NR.
C10_BFieldsBadField ==
    (IsJoined /\ last.nr > 0 /\ last.res = "row") =>
        \A i \in 1 .. Len(last.stages) :
            LET t == StageTerm(last.stages[i])
            IN  (t \in BFieldRefs /\ RefIdx(t) >= Len(last.bfields.items)) =>
                    /\ pc = "error"
                    /\ error.kind = "NoAColumn"
                    /\ error.col = RefIdx(t) + 1
                    /\ error.line = last.nr

----------------------------------------------------------------------------
(* Properties of the parser *)

\* separate_actions has been called on the token list of the state
Separated ==
    \/ phase \in { "clauses", "ops", "plan", "written", "running" }
    \/ /\ phase = "exit"
       /\ parse_error.kind \notin { "NoPyExtension", "MultilineNotAllowed" }

\* The tokens from the one numbered i on (the first token is numbered 1)
\* spell the words of a keyword phrase: word tokens that are no string
\* literals, equal to the words up to case, one whitespace token between two
PhraseAt(toks, i, fields) ==
    /\ i + 2 * Len(fields) - 2 <= Len(toks)
    /\ \A w \in 1 .. Len(fields) :
         /\ toks[i + 2 * (w - 1)].ttype # "STRING_LITERAL"
         /\ upper(toks[i + 2 * (w - 1)].content) = << fields[w] >>
    /\ \A w \in 1 .. Len(fields) - 1 : toks[i + 2 * w - 1].ttype = "WHITESPACE"

\* The longest keyword phrase at token i, "" if there is none
KeywordAt(toks, i) ==
    LET at_i == { p \in 1 .. Len(PatternTexts) :
                    PhraseAt(toks, i, PatternFields(PatternTexts[p])) }
    IN  IF at_i = { } THEN ""
        ELSE PatternTexts[CHOOSE p \in at_i : \A q \in at_i : p <= q]

RECURSIVE Occurrences(_, _)
\* The keyword phrases of a token list read from token i on, left to right,
\* each with the numbers of its first token and of the first token after it
Occurrences(toks, i) ==
    IF i > Len(toks) THEN << >>
    ELSE LET text == KeywordAt(toks, i)
             after == i + 2 * Len(PatternFields(text)) - 1
         IN  IF text = "" THEN Occurrences(toks, i + 1)
             ELSE << [text |-> text, first |-> i, after |-> after] >>
                    \o Occurrences(toks, after)

\* C11: when a clause keyword phrase occurs at two positions of the
\* normalized token list, separate_actions raises 'More than one "<X>"
\* statements found'; so each keyword of a returned clause map occurs exactly
\* once.
C11_DuplicateClause ==
    Separated =>
      LET occ == Occurrences(tokens, 1)
          twice == { x \in 1 .. Len(occ) :
                       \E y \in 1 .. Len(occ) : x # y /\ occ[x].text = occ[y].text }
      IN  /\ twice # { } =>
                /\ parse_error.kind = "MoreThanOne"
                /\ \E x \in twice : parse_error.what = occ[x].text
          /\ parse_error.kind # "MoreThanOne" =>
                \A k \in DOMAIN actions :
                    Cardinality({ x \in 1 .. Len(occ) : occ[x].text = k }) = 1

\* C12: a query that parse_to_py accepts (the module is written) has exactly
\* one SELECT variant and at most one join mode in its clause map.
C12_OneSelectOneJoin ==
    phase \in { "written", "running" } =>
        /\ Cardinality(Present(SelectOps, actions)) = 1
        /\ Cardinality(Present(JoinOps, actions)) <= 1

\* The tokens of the state are those separate_actions is called on
Tokenized == phase \in { "tokens", "clauses", "ops", "plan", "written", "running" }

\* The text piece is a part of the text whole
InText(piece, whole) ==
    \E n \in 0 .. Len(whole) - Len(piece) :
        SubSeq(whole, n + 1, n + Len(piece)) = piece

\* The string literals among the tokens
Literals(toks) ==
    { toks[i] : i \in { n \in 1 .. Len(toks) : toks[n].ttype = "STRING_LITERAL" } }

\* C13: no string-literal token is changed or used as a keyword:
\* replace_column_vars and replace_star_vars leave the content of every
\* string literal of a clause body as it was (also 'a1', 'b2' and '*' in
\* quotes), so it is in the expression of the plan as written in the query;
\* consume_action never starts or completes a keyword on a string literal.
C13_LiteralsUntouched ==
    Tokenized =>
      /\ \A idx \in 0 .. Len(tokens) - 1 :
           LET consumed == consume_action(Patterns, tokens, idx)
           IN  /\ tokens[idx + 1].ttype = "STRING_LITERAL" =>
                    consumed = [action |-> "", i_next |-> idx + 1]
               /\ consumed.action # "" =>
                    \A n \in idx + 1 .. consumed.i_next :
                        tokens[n].ttype # "STRING_LITERAL"
      /\ \A k \in DOMAIN actions :
           LET body == actions[k]
               columns == replace_column_vars(body)
               stars == replace_star_vars(columns)
           IN  /\ Len(columns) = Len(body) /\ Len(stars) = Len(body)
               /\ \A i \in 1 .. Len(body) :
                    body[i].ttype = "STRING_LITERAL" =>
                        columns[i] = body[i] /\ stars[i] = body[i]
      /\ phase \in { "plan", "written", "running" } =>
           /\ \A lit \in Literals(actions[plan.select_op]) :
                  InText(lit.content, plan.select_expression)
           /\ "WHERE" \in DOMAIN actions =>
                \A lit \in Literals(actions["WHERE"]) :
                    InText(lit.content, plan.where_expression)

\* A column name in quotes next to a star that is rewritten
C13_Witness ==
    /\ phase = "plan"
    /\ Token("STRING_LITERAL", << "'", "a1", "'" >>) \in Literals(actions[plan.select_op])
    /\ InText(<< "'", "a1", "'", ",", "star_line" >>, plan.select_expression)

\* rbql_lines are the lines parse_to_py hands to the lexer: stripped of
\* comments, none of them empty
Stripped ==
    \/ phase \in { "lines", "tokens", "clauses", "ops", "plan", "written", "running" }
    \/ /\ phase = "exit"
       /\ parse_error.kind \notin { "NoPyExtension", "MultilineNotAllowed" }

\* The tokens that are no whitespace tokens, in their order
NonWhitespace(toks) ==
    SelectSeq(toks, LAMBDA t : t.ttype # "WHITESPACE")

\* The number of the j-th token that is no whitespace token
NthNonWhitespace(toks, j) ==
    CHOOSE n \in 1 .. Len(toks) :
        /\ toks[n].ttype # "WHITESPACE"
        /\ Cardinality({ m \in 1 .. n : toks[m].ttype # "WHITESPACE" }) = j

\* after is before without some whitespace tokens: the other tokens are all
\* there in their order; two of them that had whitespace between them have
\* one whitespace token between them, the others none; no whitespace token
\* is first or last
OnlyWhitespaceRemoved(before, after) ==
    LET count == Len(NonWhitespace(before))
    IN  /\ NonWhitespace(after) = NonWhitespace(before)
        /\ \A n \in 1 .. Len(after) :
             after[n].ttype = "WHITESPACE" =>
                 /\ after[n] = Space
                 /\ n > 1 /\ n < Len(after)
                 /\ after[n + 1].ttype # "WHITESPACE"
        /\ \A j \in 1 .. count - 1 :
             NthNonWhitespace(after, j + 1) - NthNonWhitespace(after, j) > 1
               <=> NthNonWhitespace(before, j + 1) - NthNonWhitespace(before, j) > 1

\* C14: the contents of the tokens of tokenize_string_literals, and of
\* tokenize_terms after it, concatenated, are the comment-stripped lines,
\* each followed by one space, character for character; no RAW token is left
\* after tokenize_terms; remove_consecutive_whitespaces removes whitespace
\* tokens only (repeats, a leading and a trailing one).
C14_TokensKeepText ==
    Stripped =>
      LET text == Flatten([n \in 1 .. Len(rbql_lines) |-> rbql_lines[n] \o << " " >>])
          literals == tokenize_string_literals(rbql_lines)
          terms == tokenize_terms(literals)
          normal == remove_consecutive_whitespaces(terms)
      IN  /\ Contents(literals) = text
          /\ Contents(terms) = text
          /\ \A n \in 1 .. Len(terms) : terms[n].ttype # "RAW"
          /\ OnlyWhitespaceRemoved(terms, normal)
          /\ phase # "lines" => tokens = normal

\* A line with two leading spaces before a string literal has been lexed:
\* three whitespace tokens are gone
C14_Witness ==
    /\ phase = "tokens"
    /\ \E n \in 1 .. Len(tokens) : tokens[n].ttype = "STRING_LITERAL"
    /\ Len(tokenize_terms(tokenize_string_literals(rbql_lines))) >= Len(tokens) + 3

\* C15: every parsing error of parse_to_py is raised before the module file
\* is written and before a stream is opened: when an error is set the process
\* exits with the file as it was (absent, or the one of an earlier run), no
\* stream open and no record read; the file and the streams change only on
\* the way to a written module, after which nothing is raised.
C15_ErrorsBeforeEffects ==
    /\ [](parse_error.kind # "" =>
            /\ phase = "exit"
            /\ py_file \in { NoFile, StaleFile }
            /\ streams = "closed"
            /\ NR = 0 /\ il = 0 /\ destination = << >>)
    /\ [][(py_file' # py_file \/ streams' # streams) =>
            /\ parse_error'.kind = ""
            /\ phase' \in { "written", "running" }]_vars

\* The last error parse_to_py can raise, with the module file of an earlier
\* run still there
C15_Witness ==
    /\ phase = "exit"
    /\ parse_error.kind = "SelectIsEmpty"
    /\ py_file = StaleFile

----------------------------------------------------------------------------
(* Properties of the executor, continued *)

\* C16: without ORDER BY, when the pass for record n raises, the output is
\* what the passes for the records 1 .. n-1 wrote, in input order: the
\* failing pass leaves the output and the writer as they were, the output
\* only ever grows at its end by the record of the pass that writes, and
\* nothing runs after the error.
C16_ErrorKeepsOutput ==
    /\ []((pc = "error" /\ last.outcome = "raise" /\ ~params.sort_flag) =>
            /\ last.nr = NR
            /\ \A i \in 1 .. Len(destination) : destination[i].nr \in 1 .. NR - 1
            /\ \A i, j \in 1 .. Len(destination) :
                   i < j => destination[i].nr < destination[j].nr)
    /\ [][/\ pc # "error"
          /\ (pc' = "error" /\ ~params.sort_flag) =>
                 destination' = destination /\ seen' = seen
          /\ (destination' # destination /\ ~params.sort_flag) =>
                 /\ last'.outcome = "write"
                 /\ Len(destination') = Len(destination) + 1
                 /\ SubSeq(destination', 1, Len(destination)) = destination
                 /\ destination'[Len(destination')].nr = NR']_vars

\* The pass for the second record raised after the first record was written
C16_Witness ==
    /\ pc = "error"
    /\ last.outcome = "raise"
    /\ ~params.sort_flag
    /\ NR = 2
    /\ Len(destination) = 1
    /\ destination[1].nr = 1

----------------------------------------------------------------------------
(* Properties of the parser, continued *)

\* The clause map separate_actions would return if it read the keyword
\* phrases at every position: clause x runs up to the next phrase
ClausesOf(toks) ==
    LET occ == Occurrences(toks, 1)
    IN  [k \in { occ[x].text : x \in 1 .. Len(occ) } |->
           LET x == CHOOSE y \in 1 .. Len(occ) : occ[y].text = k
               end == IF x < Len(occ) THEN occ[x + 1].first - 1 ELSE Len(toks)
           IN  strip_tokens(SubSeq(toks, occ[x].after, end))]

\* C17: separate_actions recognises a keyword phrase at every position of
\* the normalized token list, a phrase whose last word is the last token
\* included: consume_action returns the longest phrase whose words the tokens
\* spell (up to case, no string literals), and the clause map has a clause
\* for every phrase, so the query SELECT has an empty SELECT clause and a
\* trailing WHERE or ORDER BY starts a clause.
C17_KeywordAtEveryPosition ==
    Separated =>
      /\ \A idx \in 0 .. Len(tokens) - 1 :
           consume_action(Patterns, tokens, idx).action = KeywordAt(tokens, idx + 1)
      /\ parse_error.kind # "MoreThanOne" => actions = ClausesOf(tokens)

\* The words of a join clause body: its text split on single spaces
JoinWords(body) == split(join_tokens(body), " ")

IsAColumn(word) == word \in { << "a1" >>, << "a2" >> }

IsBColumn(word) == word \in { << "b1" >>, << "b2" >> }

\* The field reference of a column name: a<i> is fields[i-1], b<j> is
\* bfields[j-1]
ReferenceOf(word) ==
    CASE word = << "a1" >> -> << "fields[0]" >>
      [] word = << "a2" >> -> << "fields[1]" >>
      [] word = << "b1" >> -> << "bfields[0]" >>
      [] word = << "b2" >> -> << "bfields[1]" >>
      [] OTHER -> << >>

\* '<path> ON <x> == <y>' with one of x, y a column of A and the other one
\* of B
WellFormedJoin(words) ==
    /\ Len(words) = 5
    /\ upper(words[2]) = << "ON" >>
    /\ words[4] = << "=", "=" >>
    /\ \/ IsAColumn(words[3]) /\ IsBColumn(words[5])
       \/ IsBColumn(words[3]) /\ IsAColumn(words[5])

\* C18: parse_join_expression accepts a join clause body iff its text, split
\* on single spaces, is '<path> ON <x> == <y>' (ON in any case, == exactly)
\* with exactly one of x, y a column of A and the other a column of B, and
\* returns the path, the reference of the A column and the reference of the
\* B column, in that order, whichever side they were on; every other body is
\* rejected with 'Incorrect join syntax'.
C18_JoinExpression ==
    /\ Separated =>
         \A k \in Present(JoinOps, actions) :
             LET words == JoinWords(actions[k])
                 parsed == parse_join_expression(actions[k])
                 a == IF IsAColumn(words[3]) THEN words[3] ELSE words[5]
                 b == IF IsAColumn(words[3]) THEN words[5] ELSE words[3]
             IN  IF WellFormedJoin(words)
                 THEN parsed = [error |-> NoParsingError, path |-> words[1],
                                lhs |-> ReferenceOf(a), rhs |-> ReferenceOf(b)]
                 ELSE parsed.error.kind = "IncorrectJoinSyntax"
    /\ (phase \in { "ops", "plan", "written", "running" } /\ plan.join_op # "") =>
         LET words == JoinWords(actions[plan.join_op])
         IN  /\ WellFormedJoin(words)
             /\ plan.rhs_table_path = words[1]
             /\ plan.lhs_join_var \in { ReferenceOf(words[3]), ReferenceOf(words[5]) }
             /\ plan.lhs_join_var \in { << "fields[0]" >>, << "fields[1]" >> }
             /\ plan.rhs_join_var \in { ReferenceOf(words[3]), ReferenceOf(words[5]) }
             /\ plan.rhs_join_var \in { << "bfields[0]" >>, << "bfields[1]" >> }
    /\ parse_error.kind = "IncorrectJoinSyntax" =>
         \E k \in Present(JoinOps, actions) : ~ WellFormedJoin(JoinWords(actions[k]))

\* A join clause with the B column on the left of == was accepted
C18_Witness ==
    /\ phase = "ops"
    /\ plan.join_op = "LEFT JOIN"
    /\ JoinWords(actions["LEFT JOIN"]) =
           << << "B" >>, << "On" >>, << "b2" >>, << "=", "=" >>, << "a1" >> >>
    /\ plan.lhs_join_var = << "fields[0]" >>
    /\ plan.rhs_join_var = << "bfields[1]" >>

\* The number of the nearest token that is no whitespace token on one side
\* of token i (step is -1 or 1); 0 or Len(toks) + 1 if there is none
Nearest(toks, i, step) ==
    LET side == { n \in 1 .. Len(toks) :
                    /\ (n - i) * step > 0
                    /\ toks[n].ttype # "WHITESPACE" }
    IN  IF side = { } THEN (IF step > 0 THEN Len(toks) + 1 ELSE 0)
        ELSE CHOOSE n \in side : \A m \in side : (m - n) * step >= 0

\* Token i is a star that is no string literal, and each nearest neighbour
\* that exists is a comma
StarBetweenCommas(toks, i) ==
    LET l == Nearest(toks, i, 0 - 1)
        r == Nearest(toks, i, 1)
    IN  /\ toks[i].ttype # "STRING_LITERAL"
        /\ toks[i].content = << "*" >>
        /\ l >= 1 => toks[l].content[Len(toks[l].content)] = ","
        /\ r <= Len(toks) => toks[r].content[1] = ","

\* No token of the query is the name star_line itself
NoStarLineInQuery ==
    \A n \in 1 .. Len(tokens) : tokens[n].content # << "star_line" >>

\* C19: in the SELECT body a star that is no string literal is rewritten to
\* star_line iff each of its nearest non-whitespace neighbours, where there
\* is one, is a comma; all other tokens are as replace_column_vars left
\* them; a star in the WHERE or ORDER BY body is never rewritten.
C19_StarBetweenCommas ==
    (phase \in { "plan", "written", "running" } /\ NoStarLineInQuery) =>
      LET body == actions[plan.select_op]
          columns == replace_column_vars(body)
          expected == [i \in 1 .. Len(body) |->
                         IF StarBetweenCommas(body, i)
                         THEN Token(body[i].ttype, << "star_line" >>)
                         ELSE columns[i]]
      IN  /\ SelectTokens(plan.select_op, actions) = expected
          /\ plan.select_expression = join_tokens(expected)
          /\ \A n \in 1 .. Len(plan.where_expression) :
                 plan.where_expression[n] # "star_line"
          /\ \A n \in 1 .. Len(plan.sort_key_expression) :
                 plan.sort_key_expression[n] # "star_line"
          /\ "WHERE" \in DOMAIN actions =>
                 Len(plan.where_expression) = Len(join_tokens(actions["WHERE"]))
          /\ "ORDER BY" \in DOMAIN actions =>
                 Len(plan.sort_key_expression) <= Len(join_tokens(actions["ORDER BY"]))

\* A star before a comma is rewritten, a star between two columns is not
C19_Witness ==
    /\ phase = "plan"
    /\ plan.select_expression = << "star_line", ",", "fields[0]", "*", "fields[0]" >>

----------------------------------------------------------------------------
(* Properties of the record iterator *)

\* The positions of the separator in a stream
SepPositions(s) == { n \in 1 .. Len(s) : s[n] = Sep }

\* The position of the j-th separator; 0 for j = 0 and Len(s) + 1 after the
\* last one
NthSep(s, j) ==
    IF j = 0 THEN 0
    ELSE IF j > Cardinality(SepPositions(s)) THEN Len(s) + 1
    ELSE CHOOSE n \in SepPositions(s) :
             Cardinality({ m \in SepPositions(s) : m <= n }) = j

\* The stream split on the separator
Pieces(s) ==
    [j \in 1 .. Cardinality(SepPositions(s)) + 1 |->
       SubSeq(s, NthSep(s, j - 1) + 1, NthSep(s, j) - 1)]

\* The pieces without the last one if that is empty
Records(s) ==
    LET pieces == Pieces(s)
    IN  IF pieces[Len(pieces)] = << >>
        THEN SubSeq(pieces, 1, Len(pieces) - 1) ELSE pieces

\* C20: whatever the chunk size and the lengths of the reads, rows() yields
\* the stream split on the separator, without the last piece iff that is
\* empty: each record once, in order, empty records between two separators
\* included.
C20_RowsIndependentOfChunks ==
    /\ at \in { "read", "find", "done" } =>
         /\ Len(yielded) <= Len(Records(stream))
         /\ yielded = SubSeq(Records(stream), 1, Len(yielded))
    /\ at = "done" => yielded = Records(stream)

\* A record read in two chunks, an empty record, and no record after the
\* last separator
C20_Witness ==
    /\ at = "done"
    /\ chunksize = 1
    /\ stream = << "x", "y", Sep, Sep >>
    /\ yielded = << << "x", "y" >>, << >> >>

----------------------------------------------------------------------------
(* Properties of the comment stripper *)

\* The quote at position n of a line is escaped: a backslash is right before
\* it, and no backslash is right before that one
EscapedAt(cline, n) ==
    /\ n > 1
    /\ cline[n - 1] = "\\"
    /\ ~ (n > 2 /\ cline[n - 2] = "\\")

RECURSIVE QuoteAfter(_, _)
\* The quote mark of the literal that is open after the first n characters
\* of a line, "" if none is
QuoteAfter(cline, n) ==
    IF n = 0 THEN ""
    ELSE LET before == QuoteAfter(cline, n - 1)
         IN  IF before = ""
             THEN IF cline[n] \in Quotes THEN cline[n] ELSE ""
             ELSE IF cline[n] = before /\ ~ EscapedAt(cline, n) THEN "" ELSE before

\* The positions of the comment signs outside every literal
CommentSigns(cline) ==
    { n \in 1 .. Len(cline) : cline[n] = "#" /\ QuoteAfter(cline, n - 1) = "" }

\* Where the line is cut: at its first comment sign outside every literal, or
\* behind its end
CutPosition(cline) ==
    IF CommentSigns(cline) = { } THEN Len(cline) + 1
    ELSE CHOOSE n \in CommentSigns(cline) : \A m \in CommentSigns(cline) : n <= m

\* The line up to the last character before the cut that is no whitespace,
\* its tabs as spaces
CutAtComment(cline) ==
    LET kept == { n \in 1 .. CutPosition(cline) - 1 : cline[n] \notin { " ", "\t" } }
        len == IF kept = { } THEN 0 ELSE CHOOSE n \in kept : \A m \in kept : m <= n
    IN  [n \in 1 .. len |-> IF cline[n] = "\t" THEN " " ELSE cline[n]]

\* C21: parse_to_py goes on with every line cut at its first comment sign
\* outside every string literal and without the whitespace before the cut
\* (a tab in what is left is a space); a comment sign inside a literal before
\* the cut is still at its place; a literal is closed by the quote mark that
\* opened it unless that is escaped, i.e. right after a backslash that is not
\* right after a backslash.  The lines that are left empty are dropped.  When
\* a line with a triple quote stops the parser, the lines before it are cut
\* the same way.
C21_StripComments ==
    [][ /\ phase = "start" /\ phase' = "lines" =>
             /\ rbql_lines' =
                  SelectSeq([n \in 1 .. Len(rbql_lines) |-> CutAtComment(rbql_lines[n])],
                            LAMBDA l : l # << >>)
             /\ \A n \in 1 .. Len(rbql_lines) :
                  \A k \in 1 .. CutPosition(rbql_lines[n]) - 1 :
                      rbql_lines[n][k] = "#" =>
                          /\ k <= Len(strip_comments(rbql_lines[n]))
                          /\ strip_comments(rbql_lines[n])[k] = "#"
        /\ phase = "start" /\ parse_error'.kind = "MultilineNotAllowed" =>
             \A n \in 1 .. parse_error'.line - 1 :
                 rbql_lines'[n] = CutAtComment(rbql_lines[n])
      ]_vars

\* The line of test_strip3 has been cut behind the literal that ends with
\* two backslashes
C21_Witness ==
    /\ phase = "lines"
    /\ rbql_lines = << << "v", " ", "=", " ", "\"", "hello", "\\", "\\", "\"" >> >>

----------------------------------------------------------------------------
(* The evaluation order of the loop body *)

\* What a pass evaluates, in this order, unless it ends before
EvaluationOrder ==
    (IF joiner.type # "none_joiner" THEN << "join_key", "get" >> ELSE << >>)
      \o << "where", "select" >>
      \o (IF params.sort_flag THEN << "sort_key" >> ELSE << >>)

\* The step neither writes nor buffers a record
NothingKept ==
    /\ destination' = destination
    /\ seen' = seen
    /\ unsorted_entries' = unsorted_entries

\* The step ends the run with an error
Aborts == pc' = "error" /\ error' # NoError /\ NothingKept

\* The step goes on to the next record without a new error
Skips == pc' = "loop" /\ error' = error /\ NothingKept

\* C22: the pass for an A record evaluates the join key and looks it up,
\* then WHERE, then SELECT, then the ORDER BY key, and stops at the first of
\* them that ends the pass.  A record the join skips has neither WHERE nor
\* SELECT nor the ORDER BY key evaluated; a record for which WHERE is falsy
\* has neither SELECT nor the ORDER BY key evaluated, so the run goes on
\* without an error even when the record has too few fields for the SELECT
\* list.  An error in the join key or in WHERE ends the run, whatever the
\* rest of the pass would have done with the record.
C22_EvaluationOrder ==
    [][NR' = NR + 1 =>
         LET line == last'.line
             stages == last'.stages
             joined == joiner.type # "none_joiner"
             key == EvalTerm(params.lhs_join_var, line, BFieldsUnset, line)
             got == JoinerGet(joiner, key.val)
             to_where == ~joined \/ (key.exc = "" /\ got.res = "row")
             bfields == IF joined THEN got.bfields ELSE BFieldsUnset
             star_line ==
                 IF joined
                 THEN line \o JoinDLM([i \in 1 .. Len(bfields.items) |->
                                         str6(<< bfields.items[i] >>)])
                 ELSE line
             where == EvalWhere(params.where_expression, line, bfields, star_line)
         IN  /\ Len(stages) <= Len(EvaluationOrder)
             /\ stages = SubSeq(EvaluationOrder, 1, Len(stages))
             /\ (joined /\ key.exc # "") =>
                    Aborts /\ stages = << "join_key" >>
             /\ (joined /\ key.exc = "" /\ got.res = "None") =>
                    Skips /\ stages = << "join_key", "get" >>
             /\ (to_where /\ where.exc # "") =>
                    Aborts /\ stages[Len(stages)] = "where"
             /\ (to_where /\ where.exc = "" /\ ~where.val) =>
                    Skips /\ stages[Len(stages)] = "where"
             /\ \A i \in 1 .. Len(stages) :
                    stages[i] \in { "select", "sort_key" } =>
                        to_where /\ where.exc = "" /\ where.val
      ]_vars

\* WHERE has rejected a record of one field in a query that selects a2: the
\* SELECT list was not evaluated and the run goes on
C22_Witness ==
    /\ pc = "loop"
    /\ NR >= 1
    /\ last.nr = NR
    /\ Len(last.line) = 1
    /\ params.select_expression = << "fields[1]" >>
    /\ params.where_expression = << "fields[0]", "!=", "'0'" >>
    /\ last.outcome = "continue"
    /\ last.stages = << "where" >>
    /\ error = NoError

====
